---- MODULE Spec2Model ----
(***************************************************************************)
(* Model of the `ben` bencode codec: the single-pass tokenizer             *)
(* (src/src/parse.rs), the tree view over the token arena                  *)
(* (src/src/decode.rs) and the streaming encoder (src/src/encode.rs).      *)
(*                                                                         *)
(* Bytes are their ASCII codes.  i64 values are kept exactly: a magnitude  *)
(* is the sequence of its decimal digits, most significant first, without  *)
(* leading zeros (zero is the empty sequence), so that the comparisons     *)
(* against i64::max_value() are the ones the code makes.                   *)
(***************************************************************************)
EXTENDS Integers, Sequences, FiniteSets, TLC

(* ---------------------------------------------------------------- bytes *)
ChI == 105
ChL == 108
ChD == 100
ChE == 101
ChColon == 58
ChMinus == 45
Ch0 == 48
Ch9 == 57
ChA == 97
ChX == 120

IsDigit(c) == c >= Ch0 /\ c <= Ch9

(* ------------------------------------------------- exact decimal values *)
RECURSIVE BigStrip(_)
BigStrip(a) == IF a # <<>> /\ Head(a) = 0 THEN BigStrip(Tail(a)) ELSE a

RECURSIVE BigCmpSameLen(_, _)
BigCmpSameLen(a, b) ==
    IF a = <<>> THEN 0
    ELSE IF Head(a) > Head(b) THEN 1
    ELSE IF Head(a) < Head(b) THEN -1
    ELSE BigCmpSameLen(Tail(a), Tail(b))

\* a > b on magnitudes
BigGT(a, b) ==
    \/ Len(a) > Len(b)
    \/ Len(a) = Len(b) /\ BigCmpSameLen(a, b) = 1

\* a / 10 (integer division)
BigDiv10(a) == IF a = <<>> THEN <<>> ELSE SubSeq(a, 1, Len(a) - 1)

\* a * 10
BigMul10(a) == IF a = <<>> THEN <<>> ELSE Append(a, 0)

\* a + d for a small d >= 0
RECURSIVE BigAddSmall(_, _)
BigAddSmall(a, d) ==
    IF d = 0 THEN a
    ELSE IF a = <<>> THEN (IF d >= 10 THEN Append(BigAddSmall(<<>>, d \div 10), d % 10)
                           ELSE <<d>>)
    ELSE LET t == a[Len(a)] + d
         IN  Append(BigAddSmall(SubSeq(a, 1, Len(a) - 1), t \div 10), t % 10)

\* a - d for a digit d, a >= d
RECURSIVE BigSubSmall(_, _)
BigSubSmall(a, d) ==
    IF d = 0 THEN a
    ELSE LET last == a[Len(a)]
             rest == SubSeq(a, 1, Len(a) - 1)
         IN  IF last >= d THEN BigStrip(Append(rest, last - d))
             ELSE BigStrip(Append(BigSubSmall(rest, 1), last + 10 - d))

RECURSIVE NatToBig(_)
NatToBig(n) == IF n = 0 THEN <<>> ELSE Append(NatToBig(n \div 10), n % 10)

RECURSIVE BigToNat(_)
BigToNat(a) == IF a = <<>> THEN 0 ELSE 10 * BigToNat(SubSeq(a, 1, Len(a) - 1)) + a[Len(a)]

\* i64::max_value() = 9223372036854775807
I64Max == <<9,2,2,3,3,7,2,0,3,6,8,5,4,7,7,5,8,0,7>>
\* |i64::min_value()| = 9223372036854775808
I64MinMag == <<9,2,2,3,3,7,2,0,3,6,8,5,4,7,7,5,8,0,8>>

\* a signed 64-bit value: sign and magnitude (-0 is 0)
I64(neg, mag) == [neg |-> neg /\ mag # <<>>, mag |-> mag]

\* usize::max_value(): larger than every token count a buffer of the model needs
UsizeMax == 2147483647

(* --------------------------------------------------------------- tokens *)
\* Token::new: children 0, next 1
TokenNew(kind, start, end) ==
    [kind |-> kind, start |-> start, end |-> end, children |-> 0, next |-> 1]

(* --------------------------------------------------------------- errors *)
NoErr == [kind |-> "Ok"]
Eof == [kind |-> "Eof"]
Unexpected(p) == [kind |-> "Unexpected", pos |-> p]
Invalid(r, p) == [kind |-> "Invalid", reason |-> r, pos |-> p]
NoMemory == [kind |-> "NoMemory"]
Overflow(p) == [kind |-> "Overflow", pos |-> p]
\* an arithmetic fault (panic) of a build with overflow checks
Panic == [kind |-> "Panic"]
NoResult == [kind |-> "None"]

ReasonExtra == "Extra bytes at the end"
ReasonUnclosed == "Unclosed object"
ReasonKey == "Dictionary key must be a string"
ReasonLen == "String length must be positive"

(* --------------------------------------------------------------- parser *)
\* Parser::default
ParserDefault ==
    [pos |-> 0, tok_next |-> 0, tok_super |-> -1, token_limit |-> UsizeMax,
     tokens |-> <<>>]

\* reset without `self.tokens.clear()`
reset_KeepTokens(p) == [p EXCEPT !.pos = 0, !.tok_next = 0, !.tok_super = -1]

\* Parser::reset
reset(p) ==
    [p EXCEPT !.tokens = <<>>, !.pos = 0, !.tok_next = 0, !.tok_super = -1]

\* alloc_token with the ceiling test off by one (`>` for `>=`)
alloc_token_OffByOne(p, token) ==
    IF Len(p.tokens) > p.token_limit
    THEN [p |-> p, err |-> NoMemory]
    ELSE [p |-> [p EXCEPT !.tokens = Append(@, token), !.tok_next = @ + 1],
          err |-> NoErr]

\* Parser::alloc_token
alloc_token(p, token) ==
    IF Len(p.tokens) >= p.token_limit
    THEN [p |-> p, err |-> NoMemory]
    ELSE [p |-> [p EXCEPT !.tokens = Append(@, token), !.tok_next = @ + 1],
          err |-> NoErr]

\* update_super testing the parity of the count before the increment
update_super_ParityBefore(p, curr_kind) ==
    IF p.tok_super < 0 THEN [p |-> p, err |-> NoErr]
    ELSE LET ix == p.tok_super + 1
             q  == [p EXCEPT !.tokens[ix].children = @ + 1]
             t  == p.tokens[ix]
         IN  IF t.kind = "Dict" /\ curr_kind # "ByteStr" /\ t.children % 2 # 0
             THEN [p |-> q, err |-> Invalid(ReasonKey, q.pos)]
             ELSE [p |-> q, err |-> NoErr]

\* update_super that counts the child and lets any kind stand as a key
update_super_AnyKey(p, curr_kind) ==
    IF p.tok_super < 0 THEN [p |-> p, err |-> NoErr]
    ELSE [p |-> [p EXCEPT !.tokens[p.tok_super + 1].children = @ + 1],
          err |-> NoErr]

\* Parser::update_super
update_super(p, curr_kind) ==
    IF p.tok_super < 0 THEN [p |-> p, err |-> NoErr]
    ELSE LET ix == p.tok_super + 1
             q  == [p EXCEPT !.tokens[ix].children = @ + 1]
             t  == q.tokens[ix]
         IN  IF t.kind = "Dict" /\ curr_kind # "ByteStr" /\ t.children % 2 # 0
             THEN [p |-> q, err |-> Invalid(ReasonKey, q.pos)]
             ELSE [p |-> q, err |-> NoErr]

\* the digit loop without the test `val > i64::max_value() - digit`
RECURSIVE parse_int_loop_NoAddCheck(_, _, _, _, _)
parse_int_loop_NoAddCheck(buf, stop_char, start, pos, val) ==
    IF pos >= Len(buf) THEN [pos |-> pos, err |-> NoErr, val |-> val]
    ELSE LET c == buf[pos + 1] IN
         IF IsDigit(c)
         THEN IF BigGT(val, BigDiv10(I64Max))
              THEN [pos |-> start, err |-> Overflow(start), val |-> val]
              ELSE parse_int_loop_NoAddCheck(buf, stop_char, start, pos + 1,
                       BigAddSmall(BigMul10(val), c - Ch0))
         ELSE IF c = stop_char
              THEN [pos |-> pos, err |-> NoErr, val |-> val]
              ELSE [pos |-> start, err |-> Unexpected(pos), val |-> val]

\* the digit loop reporting the start of the literal for a byte it rejects
RECURSIVE parse_int_loop_PosAtStart(_, _, _, _, _)
parse_int_loop_PosAtStart(buf, stop_char, start, pos, val) ==
    IF pos >= Len(buf) THEN [pos |-> pos, err |-> NoErr, val |-> val]
    ELSE LET c == buf[pos + 1] IN
         IF IsDigit(c)
         THEN IF BigGT(val, BigDiv10(I64Max))
              THEN [pos |-> start, err |-> Overflow(start), val |-> val]
              ELSE LET v10   == BigMul10(val)
                       digit == c - Ch0
                   IN  IF BigGT(v10, BigSubSmall(I64Max, digit))
                       THEN [pos |-> start, err |-> Overflow(start), val |-> v10]
                       ELSE parse_int_loop_PosAtStart(buf, stop_char, start, pos + 1,
                                                      BigAddSmall(v10, digit))
         ELSE IF c = stop_char
              THEN [pos |-> pos, err |-> NoErr, val |-> val]
              ELSE [pos |-> start, err |-> Unexpected(start), val |-> val]

\* the digit loop of Parser::parse_int
RECURSIVE parse_int_loop(_, _, _, _, _)
parse_int_loop(buf, stop_char, start, pos, val) ==
    IF pos >= Len(buf) THEN [pos |-> pos, err |-> NoErr, val |-> val]
    ELSE LET c == buf[pos + 1] IN
         IF IsDigit(c)
         THEN IF BigGT(val, BigDiv10(I64Max))
              THEN [pos |-> start, err |-> Overflow(start), val |-> val]
              ELSE LET v10   == BigMul10(val)
                       digit == c - Ch0
                   IN  IF BigGT(v10, BigSubSmall(I64Max, digit))
                       THEN [pos |-> start, err |-> Overflow(start), val |-> v10]
                       ELSE parse_int_loop(buf, stop_char, start, pos + 1,
                                           BigAddSmall(v10, digit))
         ELSE IF c = stop_char
              THEN [pos |-> pos, err |-> NoErr, val |-> val]
              ELSE [pos |-> start, err |-> Unexpected(pos), val |-> val]

\* Parser::parse_int
parse_int(p, buf, stop_char) ==
    IF p.pos >= Len(buf)
    THEN [p |-> p, err |-> Eof, val |-> I64(FALSE, <<>>)]
    ELSE LET start    == p.pos
             negative == buf[p.pos + 1] = ChMinus
             pos1     == IF negative THEN p.pos + 1 ELSE p.pos
         IN  IF negative /\ pos1 = Len(buf)
             THEN [p |-> [p EXCEPT !.pos = start], err |-> Eof,
                   val |-> I64(FALSE, <<>>)]
             ELSE LET r == parse_int_loop(buf, stop_char, start, pos1, <<>>)
                  IN  [p |-> [p EXCEPT !.pos = r.pos], err |-> r.err,
                       val |-> I64(negative, r.val)]

\* self.pos + len > buf.len(), len an i64 magnitude
PastEnd(pos, lenmag, buflen) ==
    \/ Len(lenmag) > 9
    \/ pos + BigToNat(lenmag) > buflen

\* parse_string with the token's end one byte past the payload
parse_string_EndPast(p, buf) ==
    LET start == p.pos
        r     == parse_int(p, buf, ChColon)
    IN  IF r.err # NoErr THEN [p |-> r.p, err |-> r.err]
        ELSE LET p1 == [r.p EXCEPT !.pos = @ + 1]
             IN  IF r.val.neg
                 THEN [p |-> [p1 EXCEPT !.pos = start],
                       err |-> Invalid(ReasonLen, start)]
                 ELSE IF PastEnd(p1.pos, r.val.mag, Len(buf))
                 THEN [p |-> [p1 EXCEPT !.pos = start], err |-> Eof]
                 ELSE LET len == BigToNat(r.val.mag)
                          a   == alloc_token(p1,
                                     TokenNew("ByteStr", p1.pos, p1.pos + len + 1))
                      IN  IF a.err = NoErr
                          THEN [p |-> [a.p EXCEPT !.pos = @ + len], err |-> NoErr]
                          ELSE [p |-> [a.p EXCEPT !.pos = start], err |-> NoMemory]

\* Parser::parse_string
parse_string(p, buf) ==
    LET start == p.pos
        r     == parse_int(p, buf, ChColon)
    IN  IF r.err # NoErr THEN [p |-> r.p, err |-> r.err]
        ELSE LET p1 == [r.p EXCEPT !.pos = @ + 1]
             IN  IF r.val.neg
                 THEN [p |-> [p1 EXCEPT !.pos = start],
                       err |-> Invalid(ReasonLen, start)]
                 ELSE IF PastEnd(p1.pos, r.val.mag, Len(buf))
                 THEN [p |-> [p1 EXCEPT !.pos = start], err |-> Eof]
                 ELSE LET len == BigToNat(r.val.mag)
                          a   == alloc_token(p1,
                                     TokenNew("ByteStr", p1.pos, p1.pos + len))
                      IN  IF a.err = NoErr
                          THEN [p |-> [a.p EXCEPT !.pos = @ + len], err |-> NoErr]
                          ELSE [p |-> [a.p EXCEPT !.pos = start], err |-> NoMemory]

\* token.start >= 0 && token.end < 0
IsOpen(token) == token.start >= 0 /\ token.end < 0

\* the backward scans of the b'e' branch: the largest index <= i of an
\* open token, or -1
RECURSIVE scan_open(_, _)
scan_open(tokens, i) ==
    IF i < 0 THEN -1
    ELSE IF IsOpen(tokens[i + 1]) THEN i
    ELSE scan_open(tokens, i - 1)


\* the b'i' branch of Parser::parse_prefix
on_int(p, depth, buf) ==
    LET u == update_super(p, "Int") IN
    IF u.err # NoErr THEN [p |-> u.p, depth |-> depth, err |-> u.err]
    ELSE LET p1    == [u.p EXCEPT !.pos = @ + 1]
             start == p1.pos
             r     == parse_int(p1, buf, ChE)
         IN  IF r.err # NoErr THEN [p |-> r.p, depth |-> depth, err |-> r.err]
             ELSE LET a == alloc_token(r.p, TokenNew("Int", start, r.p.pos))
                  IN  IF a.err # NoErr
                      THEN [p |-> [a.p EXCEPT !.pos = start], depth |-> depth,
                            err |-> a.err]
                      ELSE [p |-> [a.p EXCEPT !.pos = @ + 1], depth |-> depth,
                            err |-> NoErr]

\* the b'l' and b'd' branches without `self.tok_super = self.tok_next - 1`
on_open_NoDescend(p, depth, kind) ==
    LET token == TokenNew(kind, p.pos, -1)
        p1    == [p EXCEPT !.pos = @ + 1]
        a     == alloc_token(p1, token)
    IN  IF a.err # NoErr THEN [p |-> a.p, depth |-> depth + 1, err |-> a.err]
        ELSE LET u == update_super(a.p, kind)
             IN  [p |-> u.p, depth |-> depth + 1, err |-> u.err]

\* the b'l' and b'd' branches of Parser::parse_prefix
on_open(p, depth, kind) ==
    LET token == TokenNew(kind, p.pos, -1)
        p1    == [p EXCEPT !.pos = @ + 1]
        a     == alloc_token(p1, token)
    IN  IF a.err # NoErr THEN [p |-> a.p, depth |-> depth + 1, err |-> a.err]
        ELSE LET u == update_super(a.p, kind)
             IN  IF u.err # NoErr
                 THEN [p |-> u.p, depth |-> depth + 1, err |-> u.err]
                 ELSE [p |-> [u.p EXCEPT !.tok_super = u.p.tok_next - 1],
                       depth |-> depth + 1, err |-> NoErr]

\* the b'0'..=b'9' branch of Parser::parse_prefix
on_str(p, depth, buf) ==
    LET r == parse_string(p, buf) IN
    IF r.err # NoErr THEN [p |-> r.p, depth |-> depth, err |-> r.err]
    ELSE LET u == update_super(r.p, "ByteStr")
         IN  [p |-> u.p, depth |-> depth, err |-> u.err]

\* the b'e' branch with next one short (`self.tok_next - i - 1`)
on_end_NextShort(p, depth, oc) ==
    LET p1 == [p EXCEPT !.pos = @ + 1] IN
    IF p1.tok_next = 0 /\ oc
    THEN [p |-> p1, depth |-> depth - 1, err |-> Panic]
    ELSE LET i == scan_open(p1.tokens, p1.tok_next - 1) IN
         IF i = -1
         THEN [p |-> p1, depth |-> depth - 1,
               err |-> Invalid(ReasonUnclosed, p1.pos)]
         ELSE LET p2 == [p1 EXCEPT !.tokens[i + 1].next = p1.tok_next - i - 1,
                                   !.tokens[i + 1].end = p1.pos,
                                   !.tok_super = -1]
                  j  == scan_open(p2.tokens, i)
              IN  [p |-> IF j >= 0 THEN [p2 EXCEPT !.tok_super = j] ELSE p2,
                   depth |-> depth - 1, err |-> NoErr]

\* the b'e' branch with end set to the offset of the `e`, not the one after
on_end_EndAtE(p, depth, oc) ==
    LET p1 == [p EXCEPT !.pos = @ + 1] IN
    IF p1.tok_next = 0 /\ oc
    THEN [p |-> p1, depth |-> depth - 1, err |-> Panic]
    ELSE LET i == scan_open(p1.tokens, p1.tok_next - 1) IN
         IF i = -1
         THEN [p |-> p1, depth |-> depth - 1,
               err |-> Invalid(ReasonUnclosed, p1.pos)]
         ELSE LET p2 == [p1 EXCEPT !.tokens[i + 1].next = p1.tok_next - i,
                                   !.tokens[i + 1].end = p.pos,
                                   !.tok_super = -1]
                  j  == scan_open(p2.tokens, i)
              IN  [p |-> IF j >= 0 THEN [p2 EXCEPT !.tok_super = j] ELSE p2,
                   depth |-> depth - 1, err |-> NoErr]

\* the b'e' branch without the second scan that restores tok_super
on_end_NoRestore(p, depth, oc) ==
    LET p1 == [p EXCEPT !.pos = @ + 1] IN
    IF p1.tok_next = 0 /\ oc
    THEN [p |-> p1, depth |-> depth - 1, err |-> Panic]
    ELSE LET i == scan_open(p1.tokens, p1.tok_next - 1) IN
         IF i = -1
         THEN [p |-> p1, depth |-> depth - 1,
               err |-> Invalid(ReasonUnclosed, p1.pos)]
         ELSE [p |-> [p1 EXCEPT !.tokens[i + 1].next = p1.tok_next - i,
                                !.tokens[i + 1].end = p1.pos,
                                !.tok_super = -1],
               depth |-> depth - 1, err |-> NoErr]

\* the b'e' branch of Parser::parse_prefix; oc: the build checks arithmetic
\* overflow, so that `self.tok_next - 1` faults on an empty token sequence
\* instead of wrapping to -1
on_end(p, depth, oc) ==
    LET p1 == [p EXCEPT !.pos = @ + 1] IN
    IF p1.tok_next = 0 /\ oc
    THEN [p |-> p1, depth |-> depth - 1, err |-> Panic]
    ELSE LET i == scan_open(p1.tokens, p1.tok_next - 1) IN
         IF i = -1
         THEN [p |-> p1, depth |-> depth - 1,
               err |-> Invalid(ReasonUnclosed, p1.pos)]
         ELSE LET p2 == [p1 EXCEPT !.tokens[i + 1].next = p1.tok_next - i,
                                   !.tokens[i + 1].end = p1.pos,
                                   !.tok_super = -1]
                  j  == scan_open(p2.tokens, i)
              IN  [p |-> IF j >= 0 THEN [p2 EXCEPT !.tok_super = j] ELSE p2,
                   depth |-> depth - 1, err |-> NoErr]

\* the default branch of Parser::parse_prefix
on_other(p, depth) == [p |-> p, depth |-> depth, err |-> Unexpected(p.pos)]

\* one turn of the `match c` of Parser::parse_prefix
dispatch(p, depth, buf, oc) ==
    LET c == buf[p.pos + 1] IN
    IF c = ChI THEN on_int(p, depth, buf)
    ELSE IF c = ChL THEN on_open(p, depth, "List")
    ELSE IF c = ChD THEN on_open(p, depth, "Dict")
    ELSE IF IsDigit(c) THEN on_str(p, depth, buf)
    ELSE IF c = ChE THEN on_end(p, depth, oc)
    ELSE on_other(p, depth)

\* the loop without `if depth == 0 { break }`
LoopExits_NoBreak(p, depth, buf) == p.pos >= Len(buf)

\* the loop leaves after a turn: `if depth == 0 { break }` or the `while`
\* condition fails
LoopExits(p, depth, buf) == depth = 0 \/ p.pos >= Len(buf)

\* the closing loop without the dangling-key test
final_check_NoKeyTest(p) ==
    IF \E i \in 1..p.tok_next : IsOpen(p.tokens[i])
    THEN Eof
    ELSE [kind |-> "Ok", len |-> p.pos]

\* the closing loop of Parser::parse_prefix and its return value
final_check(p) ==
    IF \E i \in 1..p.tok_next :
          \/ IsOpen(p.tokens[i])
          \/ p.tokens[i].kind = "Dict" /\ p.tokens[i].children % 2 # 0
    THEN Eof
    ELSE [kind |-> "Ok", len |-> p.pos]

\* Parser::parse without the test `len == buf.len()`
parse_return_NoLenTest(pres, buf) ==
    IF pres.kind # "Ok" THEN pres ELSE [kind |-> "Ok"]

\* Parser::parse: the check that follows the call of parse_prefix
parse_return(pres, buf) ==
    IF pres.kind # "Ok" THEN pres
    ELSE IF pres.len = Len(buf) THEN [kind |-> "Ok"]
    ELSE Invalid(ReasonExtra, pres.len)

\* the `while` loop of Parser::parse_prefix run to its exit
RECURSIVE scan_loop(_, _, _, _)
scan_loop(p, depth, buf, oc) ==
    LET d == dispatch(p, depth, buf, oc) IN
    IF d.err # NoErr \/ LoopExits(d.p, d.depth, buf) THEN d
    ELSE scan_loop(d.p, d.depth, buf, oc)

\* Parser::parse_prefix as a function of the parser and the buffer
parse_prefix(p, buf, oc) ==
    IF buf = <<>> THEN [p |-> p, res |-> Eof]
    ELSE LET s == scan_loop(reset(p), 0, buf, oc)
         IN  IF s.err # NoErr THEN [p |-> s.p, res |-> s.err]
             ELSE [p |-> s.p, res |-> final_check(s.p)]

\* Parser::parse as a function of the parser and the buffer
parse(p, buf, oc) ==
    LET r == parse_prefix(p, buf, oc)
    IN  [p |-> r.p, res |-> parse_return(r.res, buf)]


(* -------------------------------------------------------------- encoder *)
\* the decimal text of a magnitude (itoa)
RECURSIVE DigitBytes(_)
DigitBytes(mag) ==
    IF mag = <<>> THEN <<>> ELSE <<Ch0 + Head(mag)>> \o DigitBytes(Tail(mag))

\* itoa::Buffer::format of an i64
format_i64(v) ==
    (IF v.neg THEN <<ChMinus>> ELSE <<>>)
        \o (IF v.mag = <<>> THEN <<Ch0>> ELSE DigitBytes(v.mag))

\* itoa::Buffer::format of a usize
format_usize(n) == IF n = 0 THEN <<Ch0>> ELSE DigitBytes(NatToBig(n))

\* Encoder::add_int for Vec<u8>
add_int(sink, v) == sink \o <<ChI>> \o format_i64(v) \o <<ChE>>

\* add_bytes without `self.push(b':')`
add_bytes_NoColon(sink, bytes) == sink \o format_usize(Len(bytes)) \o bytes

\* Encoder::add_bytes for Vec<u8>
add_bytes(sink, bytes) == sink \o format_usize(Len(bytes)) \o <<ChColon>> \o bytes

\* Encoder::add_str for Vec<u8>
add_str(sink, str) == add_bytes(sink, str)

\* List::new / Dict::new: the opening byte
builder_new(sink, kind) == Append(sink, IF kind = "List" THEN ChL ELSE ChD)

\* a builder without its Drop impl: nothing is written on release
builder_drop_NoClose(sink) == sink

\* Drop for List / Dict: the closing byte
builder_drop(sink) == Append(sink, ChE)

\* finish() that writes the closing byte itself, before the drop
builder_finish_PushE(sink) == Append(sink, ChE)

\* List::finish / Dict::finish / AddBytes::finish: the empty body; the
\* builder, moved in, is dropped on return
builder_finish(sink) == sink

\* Encoder::add_n_bytes for Vec<u8>: the bytes written before the AddBytes is
\* returned
add_n_bytes(sink, len) == sink \o format_usize(len) \o <<ChColon>>

\* AddBytes::add: the writer's count and the sink after the call
AddBytes_add(w, sink, bytes) ==
    [w |-> [w EXCEPT !.written = @ + Len(bytes)], sink |-> sink \o bytes]

\* Drop for AddBytes that only rejects too many bytes
AddBytes_drop_OnlyOver(w) == w.written > w.len

\* Drop for AddBytes: assert_eq!(self.len, self.written) fails
AddBytes_drop(w) == w.len # w.written

\* Dict::add, Dict::add_list, Dict::add_dict: the key is written first
Dict_key(sink, key) == add_str(sink, key)

\* value trees handed to the encoder
VInt(v) == [kind |-> "Int", val |-> v]
VStr(b) == [kind |-> "ByteStr", bytes |-> b]
VList(items) == [kind |-> "List", items |-> items]
VDict(entries) == [kind |-> "Dict", entries |-> entries]

\* Encode::encode: an i64, a byte string, a sequence (a List of its
\* elements) and a keyed record (a Dict of its fields, written in call order)
RECURSIVE encode(_, _), encode_items(_, _), encode_entries(_, _)
encode(sink, v) ==
    IF v.kind = "Int" THEN add_int(sink, v.val)
    ELSE IF v.kind = "ByteStr" THEN add_bytes(sink, v.bytes)
    ELSE IF v.kind = "List"
         THEN builder_drop(encode_items(builder_new(sink, "List"), v.items))
    ELSE builder_drop(encode_entries(builder_new(sink, "Dict"), v.entries))

\* List::add for each element
encode_items(sink, items) ==
    IF items = <<>> THEN sink
    ELSE encode_items(encode(sink, Head(items)), Tail(items))

\* Dict::add for each field: the key as a string, then the value
encode_entries(sink, entries) ==
    IF entries = <<>> THEN sink
    ELSE encode_entries(encode(add_str(sink, Head(entries)[1]), Head(entries)[2]),
                        Tail(entries))

(* ------------------------------------------------------------ tree view *)
\* the outcome of a failed assert!, of an out-of-range index or of an
\* arithmetic overflow: as an integer value, as a byte slice, as a token index
Fault == [kind |-> "Fault"]
FaultBytes == <<-1>>

\* Token::range: fails its asserts on an invalid token
RangeValid(token) == token.start >= 0 /\ token.end >= token.start

\* as_raw_bytes with the slice one byte short at its end
as_raw_bytes_ShortEnd(buf, tks, idx) ==
    IF RangeValid(tks[idx + 1]) /\ tks[idx + 1].end <= Len(buf)
    THEN SubSeq(buf, tks[idx + 1].start + 1, tks[idx + 1].end - 1)
    ELSE FaultBytes

\* Node::as_raw_bytes
as_raw_bytes(buf, tks, idx) ==
    IF RangeValid(tks[idx + 1]) /\ tks[idx + 1].end <= Len(buf)
    THEN SubSeq(buf, tks[idx + 1].start + 1, tks[idx + 1].end)
    ELSE FaultBytes

\* the accumulation loop of Node::as_int: a value past i64::max_value() is an
\* arithmetic overflow
RECURSIVE as_int_loop(_, _, _)
as_int_loop(bytes, val, negative) ==
    IF bytes = <<>> THEN I64(negative, val)
    ELSE IF Head(bytes) = ChMinus THEN as_int_loop(Tail(bytes), val, TRUE)
    ELSE IF ~IsDigit(Head(bytes)) THEN Fault
    ELSE LET v == BigAddSmall(BigMul10(val), Head(bytes) - Ch0)
         IN  IF BigGT(v, I64Max) THEN Fault
             ELSE as_int_loop(Tail(bytes), v, negative)

\* Node::as_int: None for a token of another kind
as_int(buf, tks, idx) ==
    IF tks[idx + 1].kind # "Int" THEN [kind |-> "None"]
    ELSE LET bytes == as_raw_bytes(buf, tks, idx)
         IN  IF bytes = FaultBytes THEN Fault ELSE as_int_loop(bytes, <<>>, FALSE)

\* Node::as_bytes, unwrapped
as_bytes(buf, tks, idx) ==
    IF tks[idx + 1].kind # "ByteStr" THEN FaultBytes
    ELSE as_raw_bytes(buf, tks, idx)

\* as_int returned a value, not a fault
IsValue(r) == "mag" \in DOMAIN r

\* narrowing that takes any container for the one asked for
Node_as_AnyContainer(buf, tks, idx, want) ==
    IF idx >= Len(tks) THEN "Panic"
    ELSE IF want \in {"List", "Dict"}
         THEN (IF tks[idx + 1].kind \in {"List", "Dict"} THEN "Some" ELSE "None")
    ELSE IF tks[idx + 1].kind # want THEN "None"
    ELSE IF want = "Int"
         THEN (IF IsValue(as_int(buf, tks, idx)) THEN "Some" ELSE "Panic")
    ELSE IF as_raw_bytes(buf, tks, idx) = FaultBytes THEN "Panic" ELSE "Some"

\* Node::as_list / as_dict / as_int / as_bytes as the Option they return:
\* "Some", "None", or "Panic" when an index or Token::range faults
Node_as(buf, tks, idx, want) ==
    IF idx >= Len(tks) THEN "Panic"
    ELSE IF tks[idx + 1].kind # want THEN "None"
    ELSE IF want \in {"List", "Dict"} THEN "Some"
    ELSE IF want = "Int"
         THEN (IF IsValue(as_int(buf, tks, idx)) THEN "Some" ELSE "Panic")
    ELSE IF as_raw_bytes(buf, tks, idx) = FaultBytes THEN "Panic" ELSE "Some"

\* ListIter::next repeated until None: the indices of the Nodes it yields
RECURSIVE list_iter(_, _, _, _)
list_iter(tks, token_idx, pos, total) ==
    IF pos >= total THEN <<>>
    ELSE IF token_idx >= Len(tks) THEN <<-1>>
    ELSE <<token_idx>>
           \o list_iter(tks, token_idx + tks[token_idx + 1].next, pos + 1, total)

\* DictIter::next repeated until None: the (key, value) index pairs it yields
RECURSIVE dict_iter(_, _, _, _)
dict_iter(tks, token_idx, pos, total) ==
    IF pos >= total THEN <<>>
    ELSE IF token_idx >= Len(tks) THEN <<>>
    ELSE LET key_idx == token_idx
             val_idx == token_idx + tks[token_idx + 1].next
         IN  IF val_idx >= Len(tks) THEN <<>>
             ELSE << <<key_idx, val_idx>> >>
                    \o dict_iter(tks, val_idx + tks[val_idx + 1].next, pos + 2, total)

\* the value tree a caller reads off a Node with as_int, as_bytes,
\* as_list().iter() and as_dict().iter()
RECURSIVE view(_, _, _)
view(buf, tks, idx) ==
    LET t == tks[idx + 1] IN
    IF t.kind = "Int" THEN VInt(as_int(buf, tks, idx))
    ELSE IF t.kind = "ByteStr" THEN VStr(as_bytes(buf, tks, idx))
    ELSE IF t.kind = "List"
         THEN LET ix == list_iter(tks, idx + 1, 0, t.children)
              IN  VList([k \in 1..Len(ix) |->
                            IF ix[k] = -1 THEN Fault ELSE view(buf, tks, ix[k])])
    ELSE LET ix == dict_iter(tks, idx + 1, 0, t.children)
         IN  VDict([k \in 1..Len(ix) |->
                       <<as_bytes(buf, tks, ix[k][1]), view(buf, tks, ix[k][2])>>])

\* the outcomes of a call that returns Option<usize>: None, and a panic
None == -1
Panicked == -2

\* List::len
List_len(tks, idx) == IF idx < Len(tks) THEN tks[idx + 1].children ELSE 0

\* the loop of find_idx stepping one token per item (`idx += 1`)
RECURSIVE find_idx_loop_StepOne(_, _, _, _)
find_idx_loop_StepOne(tks, idx, item, i) ==
    IF item >= i THEN idx
    ELSE IF idx >= Len(tks) THEN Panicked
    ELSE find_idx_loop_StepOne(tks, idx + 1, item + 1, i)

\* the `while item < i` loop of List::find_idx
RECURSIVE find_idx_loop(_, _, _, _)
find_idx_loop(tks, idx, item, i) ==
    IF item >= i THEN idx
    ELSE IF idx >= Len(tks) THEN Panicked
    ELSE find_idx_loop(tks, idx + tks[idx + 1].next, item + 1, i)

\* List::find_idx, which List::get wraps in a Node
find_idx(tks, idx, i) ==
    IF idx >= Len(tks) THEN None
    ELSE IF i >= tks[idx + 1].children THEN None
    ELSE find_idx_loop(tks, idx + 1, 0, i)

\* List::iter / Dict::iter: the fields of the new iterator
iter_new(tks, idx) ==
    [total |-> tks[idx + 1].children, token_idx |-> idx + 1, pos |-> 0]

\* ListIter::next stepping one token (`self.token_idx += 1`)
ListIter_next_StepOne(tks, it) ==
    IF it.pos >= it.total THEN [it |-> it, item |-> None]
    ELSE IF it.token_idx >= Len(tks) THEN [it |-> it, item |-> Panicked]
    ELSE [it |-> [it EXCEPT !.token_idx = @ + 1, !.pos = @ + 1],
          item |-> it.token_idx]

\* ListIter::next: the iterator after the call and the index of the Node
ListIter_next(tks, it) ==
    IF it.pos >= it.total THEN [it |-> it, item |-> None]
    ELSE IF it.token_idx >= Len(tks) THEN [it |-> it, item |-> Panicked]
    ELSE [it |-> [it EXCEPT !.token_idx = @ + tks[it.token_idx + 1].next,
                            !.pos = @ + 1],
          item |-> it.token_idx]

\* DictIter::next: the iterator after the call and the indices of the key
\* and value Nodes; dbg: the build keeps debug assertions
DictIter_next(tks, it, dbg) ==
    IF it.pos >= it.total THEN [it |-> it, key |-> None, val |-> None]
    ELSE IF it.token_idx >= Len(tks)
    THEN [it |-> it, key |-> IF dbg THEN Panicked ELSE None, val |-> None]
    ELSE IF dbg /\ tks[it.token_idx + 1].kind # "ByteStr"
    THEN [it |-> it, key |-> Panicked, val |-> None]
    ELSE LET key_idx == it.token_idx
             val_idx == key_idx + tks[key_idx + 1].next
             it1     == [it EXCEPT !.token_idx = val_idx]
         IN  IF val_idx >= Len(tks)
             THEN [it |-> it1, key |-> IF dbg THEN Panicked ELSE None,
                   val |-> None]
             ELSE [it |-> [it1 EXCEPT !.token_idx = @ + tks[val_idx + 1].next,
                                      !.pos = @ + 2],
                   key |-> key_idx, val |-> val_idx]

\* the `find` of Dict::get going on to the last matching key
RECURSIVE Dict_get_find_Last(_, _, _, _, _)
Dict_get_find_Last(b, tks, it, key, dbg) ==
    LET r == DictIter_next(tks, it, dbg) IN
    IF r.key < 0 THEN r.key
    ELSE LET later == Dict_get_find_Last(b, tks, r.it, key, dbg)
         IN  IF later >= 0 THEN later
             ELSE IF as_raw_bytes(b, tks, r.key) = key THEN r.val
             ELSE later

\* the `find` of Dict::get over the iterator
RECURSIVE Dict_get_find(_, _, _, _, _)
Dict_get_find(b, tks, it, key, dbg) ==
    LET r == DictIter_next(tks, it, dbg) IN
    IF r.key < 0 THEN r.key
    ELSE IF as_raw_bytes(b, tks, r.key) = key THEN r.val
    ELSE Dict_get_find(b, tks, r.it, key, dbg)

\* Dict::get: the index of the value Node, or None
Dict_get(b, tks, idx, key, dbg) ==
    Dict_get_find(b, tks, iter_new(tks, idx), key, dbg)


(* --------------------------------------------------------------- inputs *)
MaxPieces == 5
MaxLex == 4
MaxLimit == 2
MaxNodes == 4

RECURSIVE Concat(_)
Concat(ss) == IF ss = <<>> THEN <<>> ELSE Head(ss) \o Concat(Tail(ss))

RECURSIVE SeqsUpTo(_, _)
SeqsUpTo(S, n) ==
    IF n = 0 THEN {<<>>}
    ELSE LET T == SeqsUpTo(S, n - 1) IN T \cup {Append(t, x) : t \in T, x \in S}

\* buffers made of whole lexemes: openers, closers, an integer, a string
Pieces ==
    {<<ChL>>, <<ChD>>, <<ChE>>, <<ChI, Ch0 + 1, ChE>>, <<Ch0 + 1, ChColon, ChA>>}
PieceBufs == {Concat(ps) : ps \in SeqsUpTo(Pieces, MaxPieces)}

\* buffers of single bytes, for the lexical cases
LexBytes == {ChI, ChE, ChMinus, Ch0 + 1, ChColon, ChL}
LexBufs == SeqsUpTo(LexBytes, MaxLex)

\* decimal literals around i64::max_value()
LitMags ==
    {SubSeq(I64Max, 1, 18) \o <<d>> : d \in 0..9}
      \cup {I64Max \o <<d>> : d \in {0, 9}}
      \cup {SubSeq(I64Max, 1, 17) \o <<9, 0>>, <<0>> \o I64Max, <<1, 2>>,
            <<9,9,9,9,9,9,9,9,9,9,9,9,9,9,9,9,9,9,9>>,
            SubSeq(I64Max, 1, 18)}
LitContexts == {<<>>, <<ChL>>, <<ChD, Ch0 + 1, ChColon, ChA>>}
LitBufs ==
    {c \o <<ChI>> \o sg \o DigitBytes(m) \o <<ChE>> \o cl :
         c \in LitContexts, sg \in {<<>>, <<ChMinus>>}, m \in LitMags,
         cl \in {<<>>, <<ChE>>}}
      \cup {c \o DigitBytes(m) \o <<ChColon, ChA>> : c \in LitContexts, m \in LitMags}

Buffers == PieceBufs \cup LexBufs \cup LitBufs

\* value trees by number of nodes; the fields of a Dict take their keys by
\* position, unsorted and repeating
LeafValues == {VInt(I64(TRUE, <<1, 2>>)), VStr(<<ChA>>)}
KeyAt(i) == IF i % 2 = 1 THEN <<ChA + 1>> ELSE <<ChA>>

RECURSIVE Trees(_), Forests(_)
Trees(n) ==
    IF n = 1 THEN LeafValues \cup {VList(<<>>), VDict(<<>>)}
    ELSE {VList(f) : f \in Forests(n - 1)}
           \cup {VDict([i \in 1..Len(f) |-> <<KeyAt(i), f[i]>>]) : f \in Forests(n - 1)}
Forests(m) ==
    IF m = 0 THEN {<<>>}
    ELSE UNION {{<<t>> \o f : t \in Trees(k), f \in Forests(m - k)} : k \in 1..m}

\* integers at and next to the ends of the i64 range
EdgeInts ==
    {I64(FALSE, <<>>), I64(FALSE, I64Max), I64(TRUE, I64Max), I64(TRUE, I64MinMag),
     I64(FALSE, SubSeq(I64Max, 1, 18))}

Values ==
    UNION {Trees(n) : n \in 1..MaxNodes}
      \cup {VInt(v) : v \in EdgeInts}
      \cup {VList(<<VInt(v), VStr(<<>>)>>) : v \in EdgeInts}

\* bytes that follow the encoded value in the buffer
Trailers ==
    {<<>>, <<ChE>>, <<ChX>>, <<ChI, Ch0 + 1, ChE>>, <<ChL, ChE>>}

NoValue == [kind |-> "None"]

\* no iterator was created, no get was called
NoIter == [kind |-> "None"]
NoGet == [op |-> "None"]

\* no call was made on the encoder yet
NoCall == [n |-> 0, op |-> "None", arg |-> <<>>]

(* ---------------------------------------------------------------- state *)
VARIABLES
    buf,              \* the buffer handed to parse / parse_prefix
    pos, tok_next, tok_super, token_limit, tokens,     \* the Parser's fields
    depth,            \* the local `depth` of parse_prefix
    pc,               \* idle, scan, check, prefix_done, done
    pres,             \* what parse_prefix returned
    result,           \* what parse returned
    enc,              \* the encoder's sink
    value,            \* the value tree written to the sink
    iter,             \* a ListIter / DictIter over the parsed tokens
    yielded,          \* what the iterator's next() returned so far
    nones,            \* how many times next() returned None
    got,              \* the last List::get / Dict::get call and its result
    live,             \* the live builders of the sink, innermost last
    log,              \* for each byte of the sink, the handle that wrote it
    fault,            \* a panic was raised by a builder
    call              \* the last call made on the encoder or on a builder

parservars == <<buf, pos, tok_next, tok_super, token_limit, tokens, depth, pc,
                pres, result>>
viewvars == <<iter, yielded, nones, got>>
buildervars == <<live, log, fault, call>>

vars == <<buf, pos, tok_next, tok_super, token_limit, tokens, depth, pc, pres,
          result, enc, value, iter, yielded, nones, got, live, log, fault,
          call>>

\* the Parser as one record
P ==
    [pos |-> pos, tok_next |-> tok_next, tok_super |-> tok_super,
     token_limit |-> token_limit, tokens |-> tokens]

SetP(q) ==
    /\ pos' = q.pos
    /\ tok_next' = q.tok_next
    /\ tok_super' = q.tok_super
    /\ token_limit' = q.token_limit
    /\ tokens' = q.tokens

Init ==
    /\ pos = ParserDefault.pos
    /\ tok_next = ParserDefault.tok_next
    /\ tok_super = ParserDefault.tok_super
    /\ token_limit = ParserDefault.token_limit
    /\ tokens = ParserDefault.tokens
    /\ buf = <<>>
    /\ depth = 0
    /\ pc = "idle"
    /\ pres = NoResult
    /\ result = NoResult
    /\ enc = <<>>
    /\ value = NoValue
    /\ iter = NoIter
    /\ yielded = <<>>
    /\ nones = 0
    /\ got = NoGet
    /\ live = <<>>
    /\ log = <<>>
    /\ fault = FALSE
    /\ call = NoCall


(* -------------------------------------------------------------- actions *)
\* Parser::set_token_limit, before the parser is used
SetTokenLimit(n) ==
    /\ pc = "idle"
    /\ token_limit = UsizeMax
    /\ token_limit' = n
    /\ UNCHANGED <<buf, pos, tok_next, tok_super, tokens, depth, pc, pres, result,
                   enc, value>>
    /\ UNCHANGED <<viewvars, buildervars>>

\* Encode::encode_to_vec of a value tree
EncodeValue(v) ==
    /\ pc = "idle"
    /\ value = NoValue
    /\ enc' = encode(<<>>, v)
    /\ value' = v
    /\ UNCHANGED <<buf, pos, tok_next, tok_super, token_limit, tokens, depth, pc,
                   pres, result>>
    /\ UNCHANGED <<viewvars, buildervars>>

\* entry of Parser::parse_prefix (called by the user or by Parser::parse):
\* Eof on an empty buffer, else reset and enter the loop
ParsePrefixEnter(b) ==
    /\ pc = "idle"
    /\ buf' = b
    /\ IF b = <<>>
       THEN /\ pres' = Eof
            /\ pc' = "prefix_done"
            /\ UNCHANGED <<pos, tok_next, tok_super, token_limit, tokens, depth>>
       ELSE /\ SetP(reset(P))
            /\ depth' = 0
            /\ pc' = "scan"
            /\ pres' = pres
    /\ UNCHANGED <<result, enc, value>>
    /\ UNCHANGED <<viewvars, buildervars>>

\* the buffer is a raw one, or the sink's content followed by other bytes
Call ==
    \/ /\ pc = "idle"
       /\ value = NoValue
       /\ \E b \in Buffers : ParsePrefixEnter(b)
    \/ /\ pc = "idle"
       /\ value # NoValue
       /\ \E s \in Trailers : ParsePrefixEnter(enc \o s)

\* one turn of the loop of parse_prefix, d the outcome of its branch
Turn(d) ==
    /\ SetP(d.p)
    /\ depth' = d.depth
    /\ IF d.err # NoErr
       THEN pres' = d.err /\ pc' = "prefix_done"
       ELSE pres' = pres
            /\ pc' = IF LoopExits(d.p, d.depth, buf) THEN "check" ELSE "scan"
    /\ UNCHANGED <<buf, result, enc, value>>
    /\ UNCHANGED <<viewvars, buildervars>>

DispatchInt ==
    /\ pc = "scan"
    /\ buf[pos + 1] = ChI
    /\ Turn(on_int(P, depth, buf))

DispatchList ==
    /\ pc = "scan"
    /\ buf[pos + 1] = ChL
    /\ Turn(on_open(P, depth, "List"))

DispatchDict ==
    /\ pc = "scan"
    /\ buf[pos + 1] = ChD
    /\ Turn(on_open(P, depth, "Dict"))

DispatchStr ==
    /\ pc = "scan"
    /\ IsDigit(buf[pos + 1])
    /\ Turn(on_str(P, depth, buf))

DispatchEnd ==
    /\ pc = "scan"
    /\ buf[pos + 1] = ChE
    /\ \E oc \in BOOLEAN : Turn(on_end(P, depth, oc))

DispatchOther ==
    /\ pc = "scan"
    /\ buf[pos + 1] \notin {ChI, ChL, ChD, ChE}
    /\ ~IsDigit(buf[pos + 1])
    /\ Turn(on_other(P, depth))

\* the closing loop of parse_prefix and its return
FinalCheck ==
    /\ pc = "check"
    /\ pres' = final_check(P)
    /\ pc' = "prefix_done"
    /\ UNCHANGED <<buf, pos, tok_next, tok_super, token_limit, tokens, depth,
                   result, enc, value>>
    /\ UNCHANGED <<viewvars, buildervars>>

\* Parser::parse after its call of parse_prefix returned
ParseReturn ==
    /\ pc = "prefix_done"
    /\ result' = parse_return(pres, buf)
    /\ pc' = "done"
    /\ UNCHANGED <<buf, pos, tok_next, tok_super, token_limit, tokens, depth,
                   pres, enc, value>>
    /\ UNCHANGED <<viewvars, buildervars>>

Next ==
    \/ pc = "idle" /\ \E n \in 0..MaxLimit : SetTokenLimit(n)
    \/ pc = "idle" /\ value = NoValue /\ \E v \in Values : EncodeValue(v)
    \/ Call
    \/ DispatchInt
    \/ DispatchList
    \/ DispatchDict
    \/ DispatchStr
    \/ DispatchEnd
    \/ DispatchOther
    \/ FinalCheck
    \/ ParseReturn

Spec == Init /\ [][Next]_vars


(* ------------------------------------------------- reading a parsed tree *)
MaxGet == 3

\* the keys a caller asks a Dict for
GetKeys == {<<ChA>>, <<ChA + 1>>, <<>>}

\* Parser::parse returned Ok and the caller has not read the tree yet
Untouched == pc = "done" /\ result.kind = "Ok" /\ iter = NoIter /\ got = NoGet

\* Node::as_list().iter() on the List at token idx
ListIterNew(idx) ==
    /\ Untouched
    /\ tokens[idx + 1].kind = "List"
    /\ iter' = [kind |-> "List", idx |-> idx, it |-> iter_new(tokens, idx)]
    /\ UNCHANGED <<parservars, enc, value, yielded, nones, got, buildervars>>

\* Node::as_dict().iter() on the Dict at token idx
DictIterNew(idx) ==
    /\ Untouched
    /\ tokens[idx + 1].kind = "Dict"
    /\ iter' = [kind |-> "Dict", idx |-> idx, it |-> iter_new(tokens, idx)]
    /\ UNCHANGED <<parservars, enc, value, yielded, nones, got, buildervars>>

\* one call of ListIter::next
ListIterNext ==
    /\ iter.kind = "List"
    /\ nones < 2
    /\ LET r == ListIter_next(tokens, iter.it) IN
       /\ iter' = [iter EXCEPT !.it = r.it]
       /\ IF r.item = None
          THEN nones' = nones + 1 /\ yielded' = yielded
          ELSE nones' = nones /\ yielded' = Append(yielded, r.item)
    /\ UNCHANGED <<parservars, enc, value, got, buildervars>>

\* one call of DictIter::next
DictIterNext ==
    /\ iter.kind = "Dict"
    /\ nones < 2
    /\ \E dbg \in BOOLEAN :
         LET r == DictIter_next(tokens, iter.it, dbg) IN
         /\ iter' = [iter EXCEPT !.it = r.it]
         /\ IF r.key = None
            THEN nones' = nones + 1 /\ yielded' = yielded
            ELSE nones' = nones /\ yielded' = Append(yielded, <<r.key, r.val>>)
    /\ UNCHANGED <<parservars, enc, value, got, buildervars>>

\* List::get(i) on the List at token idx
ListGet(idx, i) ==
    /\ Untouched
    /\ tokens[idx + 1].kind = "List"
    /\ got' = [op |-> "List::get", idx |-> idx, i |-> i,
               len |-> List_len(tokens, idx), res |-> find_idx(tokens, idx, i)]
    /\ UNCHANGED <<parservars, enc, value, iter, yielded, nones, buildervars>>

\* Dict::get(key) on the Dict at token idx
DictGet(idx, key) ==
    /\ Untouched
    /\ tokens[idx + 1].kind = "Dict"
    /\ \E dbg \in BOOLEAN :
         got' = [op |-> "Dict::get", idx |-> idx, key |-> key,
                 res |-> Dict_get(buf, tokens, idx, key, dbg)]
    /\ UNCHANGED <<parservars, enc, value, iter, yielded, nones, buildervars>>

ViewNext ==
    \/ \E idx \in 0..(Len(tokens) - 1) : ListIterNew(idx)
    \/ \E idx \in 0..(Len(tokens) - 1) : DictIterNew(idx)
    \/ ListIterNext
    \/ DictIterNext
    \/ \E idx \in 0..(Len(tokens) - 1), i \in 0..MaxGet : ListGet(idx, i)
    \/ \E idx \in 0..(Len(tokens) - 1), key \in GetKeys : DictGet(idx, key)

\* parsing a buffer, then reading the tree
SpecView == Init /\ [][Next \/ ViewNext]_vars


(* ------------------------------------------------- writing with builders *)
MaxCalls == 5

\* the arguments of the calls
IntArgs == {I64(FALSE, <<1, 2, 3>>), I64(TRUE, <<1, 2>>)} \cup EdgeInts
Hello == <<72, 101, 108, 108, 111>>
World == <<87, 111, 114, 108, 100>>
StrArgs == {<<>>, <<ChA>>, Hello, World}
ListArgs == {VStr(Hello), VStr(World), VInt(I64(FALSE, <<1, 2, 3>>))}
DictArgs == {VStr(<<ChA>>), VInt(I64(TRUE, <<1, 2>>))}
KeyArgs == {<<ChA>>, <<ChA + 1>>}
LenArgs == {0, 2}
ChunkArgs == {<<>>, <<0>>, <<0, 0>>}

\* the handle of the Vec<u8> itself, and of what holds it
VecId == -1
NoParent == -2

\* the innermost live builder is the only handle the borrow of the sink
\* leaves usable
TopKind == IF live = <<>> THEN "Vec" ELSE live[Len(live)].kind
TopId == IF live = <<>> THEN VecId ELSE live[Len(live)].id
TopParent ==
    IF live = <<>> THEN NoParent
    ELSE IF Len(live) = 1 THEN VecId ELSE live[Len(live) - 1].id

CanCall == ~fault /\ call.n < MaxCalls

\* the log entries of bytes written through the handle `by`
Entries(n, by, parent, what) ==
    [k \in 1..n |-> [by |-> by, parent |-> parent, what |-> what]]

\* the sink becomes `sink`, the new bytes written through the innermost handle
Wrote(sink) ==
    /\ enc' = sink
    /\ log' = log \o Entries(Len(sink) - Len(enc), TopId, TopParent, "data")

Called(op, arg) == call' = [n |-> call.n + 1, op |-> op, arg |-> arg]

\* a leaf value through Encode::encode
encode_leaf(sink, v) ==
    IF v.kind = "Int" THEN add_int(sink, v.val) ELSE add_str(sink, v.bytes)

\* Encoder::add_int on the Vec<u8>; the calls made on the Vec<u8> itself
\* are explored on an empty sink, those of the builders at every offset
VecAddInt(v) ==
    /\ CanCall /\ TopKind = "Vec" /\ enc = <<>>
    /\ Wrote(add_int(enc, v))
    /\ Called("add_int", v)
    /\ UNCHANGED <<parservars, value, viewvars, live, fault>>

\* Encoder::add_bytes on the Vec<u8>
VecAddBytes(b) ==
    /\ CanCall /\ TopKind = "Vec" /\ enc = <<>>
    /\ Wrote(add_bytes(enc, b))
    /\ Called("add_bytes", b)
    /\ UNCHANGED <<parservars, value, viewvars, live, fault>>

\* Encoder::add_str on the Vec<u8>
VecAddStr(b) ==
    /\ CanCall /\ TopKind = "Vec" /\ enc = <<>>
    /\ Wrote(add_str(enc, b))
    /\ Called("add_str", b)
    /\ UNCHANGED <<parservars, value, viewvars, live, fault>>

\* List::add(value)
ListAdd(v) ==
    /\ CanCall /\ TopKind = "List"
    /\ Wrote(encode_leaf(enc, v))
    /\ Called("List::add", v)
    /\ UNCHANGED <<parservars, value, viewvars, live, fault>>

\* Dict::add(key, value)
DictAdd(key, v) ==
    /\ CanCall /\ TopKind = "Dict"
    /\ Wrote(encode_leaf(Dict_key(enc, key), v))
    /\ Called("Dict::add", <<key, v>>)
    /\ UNCHANGED <<parservars, value, viewvars, live, fault>>

\* a new builder of the kind, its opener at the end of `sink`
Opened(sink, kind) ==
    /\ enc' = builder_new(sink, kind)
    /\ log' = log \o Entries(Len(sink) - Len(enc), TopId, TopParent, "data")
                  \o Entries(1, Len(sink), TopId, "open")
    /\ live' = Append(live, [kind |-> kind, id |-> Len(sink), len |-> 0,
                             written |-> 0])

\* Encoder::add_list / add_dict on the Vec<u8>, List::add_list / add_dict
AddBuilder(kind) ==
    /\ CanCall /\ TopKind \in {"Vec", "List"}
    /\ Opened(enc, kind)
    /\ Called("add_builder", kind)
    /\ UNCHANGED <<parservars, value, viewvars, fault>>

\* Dict::add_list(key) / Dict::add_dict(key)
DictAddBuilder(key, kind) ==
    /\ CanCall /\ TopKind = "Dict"
    /\ Opened(Dict_key(enc, key), kind)
    /\ Called("Dict::add_builder", <<key, kind>>)
    /\ UNCHANGED <<parservars, value, viewvars, fault>>

\* Encoder::add_n_bytes(len), on the Vec<u8> or inside an Encode::encode
\* that List::add runs
AddNBytes(len) ==
    /\ CanCall /\ TopKind \in {"Vec", "List"}
    /\ enc' = add_n_bytes(enc, len)
    /\ log' = log \o Entries(Len(enc') - Len(enc), Len(enc), TopId, "len")
    /\ live' = Append(live, [kind |-> "AddBytes", id |-> Len(enc), len |-> len,
                             written |-> 0])
    /\ Called("add_n_bytes", len)
    /\ UNCHANGED <<parservars, value, viewvars, fault>>

\* AddBytes::add(buf)
BytesAdd(bytes) ==
    /\ CanCall /\ TopKind = "AddBytes"
    /\ LET r == AddBytes_add(live[Len(live)], enc, bytes) IN
       /\ Wrote(r.sink)
       /\ live' = [live EXCEPT ![Len(live)] = r.w]
    /\ Called("AddBytes::add", bytes)
    /\ UNCHANGED <<parservars, value, viewvars, fault>>

\* a List or Dict builder is released: finish(), or drop at the end of its
\* scope
ReleaseBuilder(how) ==
    /\ CanCall /\ TopKind \in {"List", "Dict"}
    /\ enc' = builder_drop(IF how = "finish" THEN builder_finish(enc) ELSE enc)
    /\ log' = log \o Entries(Len(enc') - Len(enc), TopId, TopParent, "close")
    /\ live' = SubSeq(live, 1, Len(live) - 1)
    /\ Called(how, TopKind)
    /\ UNCHANGED <<parservars, value, viewvars, fault>>

\* the closers that unwinding writes: one drop per live List/Dict, innermost
\* first
RECURSIVE Unwind(_)
Unwind(bs) ==
    IF bs = <<>> THEN <<>>
    ELSE LET b == bs[Len(bs)]
             p == IF Len(bs) = 1 THEN VecId ELSE bs[Len(bs) - 1].id
         IN  <<[by |-> b.id, parent |-> p, what |-> "close"]>>
                \o Unwind(SubSeq(bs, 1, Len(bs) - 1))

\* an AddBytes is released: its drop asserts len = written; a failed
\* assertion unwinds through the live builders (panic = "unwind") or ends the
\* process (panic = "abort")
ReleaseBytes(how) ==
    /\ CanCall /\ TopKind = "AddBytes"
    /\ Called(how, "AddBytes")
    /\ IF AddBytes_drop(live[Len(live)])
       THEN /\ fault' = TRUE
            /\ \E unwind \in BOOLEAN :
                 IF unwind
                 THEN LET rest == SubSeq(live, 1, Len(live) - 1) IN
                      /\ live' = <<>>
                      /\ log' = log \o Unwind(rest)
                      /\ enc' = enc \o [k \in 1..Len(rest) |-> ChE]
                 ELSE UNCHANGED <<live, log, enc>>
       ELSE /\ fault' = fault
            /\ enc' = builder_finish(enc)
            /\ log' = log
            /\ live' = SubSeq(live, 1, Len(live) - 1)
    /\ UNCHANGED <<parservars, value, viewvars>>

EncNext ==
    \/ \E v \in IntArgs : VecAddInt(v)
    \/ \E b \in StrArgs : VecAddBytes(b)
    \/ \E b \in StrArgs : VecAddStr(b)
    \/ \E v \in ListArgs : ListAdd(v)
    \/ \E key \in KeyArgs, v \in DictArgs : DictAdd(key, v)
    \/ \E kind \in {"List", "Dict"} : AddBuilder(kind)
    \/ \E key \in KeyArgs, kind \in {"List", "Dict"} : DictAddBuilder(key, kind)
    \/ \E len \in LenArgs : AddNBytes(len)
    \/ \E bytes \in ChunkArgs : BytesAdd(bytes)
    \/ \E how \in {"finish", "drop"} : ReleaseBuilder(how)
    \/ \E how \in {"finish", "drop"} : ReleaseBytes(how)

SpecEnc == Init /\ [][EncNext]_vars


(* ------------------------------- a parser used again, narrowing accessors *)
Kinds == {"List", "Dict", "Int", "ByteStr"}

\* List::get_dict / get_list / get_bytes / get_int: get(i)?.as_*()
List_get_as(b, tks, idx, i, want) ==
    LET j == find_idx(tks, idx, i) IN
    IF j = None THEN "None"
    ELSE IF j = Panicked THEN "Panic"
    ELSE Node_as(b, tks, j, want)

\* Dict::get_dict / get_list / get_bytes / get_int: get(key)?.as_*()
Dict_get_as(b, tks, idx, key, want, dbg) ==
    LET j == Dict_get(b, tks, idx, key, dbg) IN
    IF j = None THEN "None"
    ELSE IF j = Panicked THEN "Panic"
    ELSE Node_as(b, tks, j, want)

\* buffers handed to a parser that has parsed before
Bytes_l0lee == <<ChL, Ch0, ChColon, ChL, ChE, ChE>>
Bytes_neg1a == <<ChMinus, Ch0 + 1, ChColon, ChA>>
Bytes_1a == <<Ch0 + 1, ChColon, ChA>>
UseBufs ==
    {<<>>, Bytes_l0lee, <<ChI, ChX, ChX + 1, ChX + 2, ChE>>, Bytes_neg1a,
     <<ChD>> \o Bytes_1a \o <<ChD>> \o Bytes_1a \o <<ChI, Ch0 + 1, ChE, ChE, ChE>>,
     <<ChL, ChI, Ch0 + 1, ChE>>,
     <<ChL>> \o Bytes_1a \o <<ChL>> \o Bytes_1a \o <<ChE, ChE>> \o Bytes_1a}

\* parse / parse_prefix called on a Parser that has returned from an earlier
\* call; the Result of that call is gone, it borrows the Parser (narrowing a
\* Node leaves the Parser as it is, so the call is made before any)
ParseAgain(b) ==
    /\ pc \in {"prefix_done", "done"}
    /\ value = NoValue
    /\ got = NoGet
    /\ buf' = b
    /\ IF b = <<>>
       THEN /\ pres' = Eof
            /\ pc' = "prefix_done"
            /\ UNCHANGED <<pos, tok_next, tok_super, token_limit, tokens, depth>>
       ELSE /\ SetP(reset(P))
            /\ depth' = 0
            /\ pc' = "scan"
            /\ pres' = NoResult
    /\ result' = NoResult
    /\ UNCHANGED <<enc, value, viewvars, buildervars>>

\* node.as_list() / as_dict() / as_int() / as_bytes() on the Node at token idx
NodeAs(idx, want) ==
    /\ Untouched
    /\ got' = [op |-> "Node::as", idx |-> idx, want |-> want,
               res |-> Node_as(buf, tokens, idx, want)]
    /\ UNCHANGED <<parservars, enc, value, iter, yielded, nones, buildervars>>

\* list.get_list(i) / get_dict(i) / get_int(i) / get_bytes(i)
ListGetAs(idx, i, want) ==
    /\ Untouched
    /\ tokens[idx + 1].kind = "List"
    /\ got' = [op |-> "List::get_as", idx |-> idx, i |-> i, want |-> want,
               res |-> List_get_as(buf, tokens, idx, i, want)]
    /\ UNCHANGED <<parservars, enc, value, iter, yielded, nones, buildervars>>

\* dict.get_list(key) / get_dict(key) / get_int(key) / get_bytes(key)
DictGetAs(idx, key, want) ==
    /\ Untouched
    /\ tokens[idx + 1].kind = "Dict"
    /\ \E dbg \in BOOLEAN :
         got' = [op |-> "Dict::get_as", idx |-> idx, key |-> key, want |-> want,
                 res |-> Dict_get_as(buf, tokens, idx, key, want, dbg)]
    /\ UNCHANGED <<parservars, enc, value, iter, yielded, nones, buildervars>>

UseNext ==
    \/ pc \in {"prefix_done", "done"} /\ \E b \in UseBufs : ParseAgain(b)
    \/ Untouched /\ \E idx \in 0..(Len(tokens) - 1), want \in Kinds : NodeAs(idx, want)
    \/ Untouched /\ \E idx \in 0..(Len(tokens) - 1), i \in 0..MaxGet, want \in Kinds :
           ListGetAs(idx, i, want)
    \/ Untouched /\ \E idx \in 0..(Len(tokens) - 1), key \in GetKeys, want \in Kinds :
           DictGetAs(idx, key, want)

\* parsing, narrowing the Nodes, parsing again with the same Parser
SpecUse == Init /\ [][Next \/ UseNext]_vars


(* ------------------------------------------------------------ properties *)
PrefixDone == pc \in {"prefix_done", "done"}
PrefixOk == PrefixDone /\ pres.kind = "Ok"
ParseOk == pc = "done" /\ result.kind = "Ok"
NoCeiling == token_limit = UsizeMax

\* a parser constructed like this one that has not parsed yet
FreshP == [ParserDefault EXCEPT !.token_limit = token_limit]

\* parse of the first n bytes of the buffer alone, on a fresh parser (a parse
\* that succeeds never meets the subtraction that a build may fault on)
ParseOfPrefix(n) == parse(FreshP, SubSeq(buf, 1, n), FALSE)

\* the innermost open container: the last token without an end, or 0
InnerOpen ==
    IF \E i \in 1..Len(tokens) : tokens[i].end < 0
    THEN CHOOSE i \in 1..Len(tokens) :
             /\ tokens[i].end < 0
             /\ \A j \in (i + 1)..Len(tokens) : tokens[j].end >= 0
    ELSE 0

\* the next value would be the child at an odd / even 1-based position of a Dict
AtDictKey ==
    /\ InnerOpen > 0
    /\ tokens[InnerOpen].kind = "Dict"
    /\ tokens[InnerOpen].children % 2 = 0
AtDictValue ==
    /\ InnerOpen > 0
    /\ tokens[InnerOpen].kind = "Dict"
    /\ tokens[InnerOpen].children % 2 = 1

KeyError(r) == r.kind = "Invalid" /\ r.reason = ReasonKey

Bytes_d1a == <<ChD, Ch0 + 1, ChColon, ChA>>
Bytes_i1e == <<ChI, Ch0 + 1, ChE>>

\* C1: every value tree written as one root value with the Encoder parses,
\* and the Node tree read back has the same kinds, integers, payload bytes
\* and children in the same order, for every i64 handed to add_int.
C1_RoundTrip ==
    (pc = "done" /\ value # NoValue /\ buf = enc /\ NoCeiling)
        => (result.kind = "Ok" /\ view(buf, tokens, 0) = value)

\* C2: when the buffer starts with a complete value E that parse accepts on
\* its own, parse_prefix succeeds on E followed by any bytes, returns
\* consumed = len(E) and leaves the tokens of parse(E).
C2_PrefixStopsAfterFirstValue ==
    pc = "prefix_done" =>
        \A n \in 1..Len(buf) :
            LET r == ParseOfPrefix(n)
            IN  r.res.kind = "Ok"
                    => (pres = [kind |-> "Ok", len |-> n] /\ tokens = r.p.tokens)

C2_Witness ==
    /\ pc = "prefix_done"
    /\ pres.kind = "Ok"
    /\ pres.len < Len(buf)
    /\ Len(tokens) >= 3
    /\ ParseOfPrefix(pres.len).res.kind = "Ok"

\* C3: parse succeeds exactly when parse_prefix succeeds having consumed the
\* whole buffer; when the first complete value ends before the end of the
\* buffer, parse fails with Invalid "Extra bytes at the end" at the length of
\* that value, whatever follows it.
C3_ParseNeedsWholeBuffer ==
    pc = "done" =>
        /\ result.kind = "Ok" <=> (pres.kind = "Ok" /\ pres.len = Len(buf))
        /\ (pres.kind = "Ok" /\ pres.len < Len(buf))
               => result = Invalid(ReasonExtra, pres.len)
        /\ \A n \in 1..(Len(buf) - 1) :
               ParseOfPrefix(n).res.kind = "Ok" => result = Invalid(ReasonExtra, n)

C3_Witness ==
    /\ pc = "done"
    /\ buf = Bytes_i1e \o Bytes_i1e
    /\ result = Invalid(ReasonExtra, 3)

\* C4: while the innermost open container is a Dict, an Int, List or Dict
\* that becomes its child at an odd position fails the parse with Invalid
\* "Dictionary key must be a string"; a ByteStr at an odd position and a value
\* of any kind at an even position do not; `d1:ai1ee` parses to one entry.
C4_Step ==
    /\ (pc = "scan" /\ AtDictKey /\ buf[pos + 1] = ChI) => KeyError(pres')
    /\ (pc = "scan" /\ AtDictKey /\ buf[pos + 1] \in {ChL, ChD}
           /\ Len(tokens) < token_limit) => KeyError(pres')
    /\ (pc = "scan" /\ AtDictKey /\ IsDigit(buf[pos + 1])) => ~KeyError(pres')
    /\ (pc = "scan" /\ AtDictValue) => ~KeyError(pres')
    /\ (pc = "scan" /\ InnerOpen > 0 /\ tokens[InnerOpen].kind = "List")
           => ~KeyError(pres')

C4_DictKeyRule ==
    /\ [][C4_Step]_vars
    /\ [](pc = "done" /\ buf = Bytes_d1a \o Bytes_i1e \o <<ChE>> /\ NoCeiling
            => /\ result.kind = "Ok"
               /\ tokens[1].kind = "Dict"
               /\ tokens[1].children = 2)

C4_Witness ==
    /\ pc = "prefix_done"
    /\ KeyError(pres)
    /\ Len(tokens) = 3
    /\ tokens[2].kind = "Dict"
    /\ tokens[2].children = 1
    /\ tokens[3].kind = "List"


\* the digits that start at offset i of b, as digit values
RECURSIVE DigitRun(_, _)
DigitRun(b, i) ==
    IF i < Len(b) /\ IsDigit(b[i + 1])
    THEN <<b[i + 1] - Ch0>> \o DigitRun(b, i + 1)
    ELSE <<>>

\* at offset start of b stands `<len>:` with len an i64, and fewer than len
\* bytes follow the colon
DeclaredPastEnd(b, start) ==
    LET run   == DigitRun(b, start)
        mag   == BigStrip(run)
        colon == start + Len(run)
    IN  /\ run # <<>>
        /\ colon < Len(b)
        /\ b[colon + 1] = ChColon
        /\ ~BigGT(mag, I64Max)
        /\ (Len(mag) > 9 \/ colon + 1 + BigToNat(mag) > Len(b))

SomeOpen == \E i \in 1..Len(tokens) : tokens[i].end < 0
SomeOddDict ==
    \E i \in 1..Len(tokens) : tokens[i].kind = "Dict" /\ tokens[i].children % 2 = 1

\* C5: parse fails with Eof on an empty buffer, on a byte string whose
\* declared length extends past the end of the buffer, when the buffer ends
\* while a List or Dict is open, and when a Dict is left with an odd number
\* of children (`d1:a`, `d1:ae`, `d1:a1:a1:ae`).
C5_Step ==
    /\ (pc = "idle" /\ pc' # "idle" /\ buf' = <<>>) => pres' = Eof
    /\ (pc = "scan" /\ IsDigit(buf[pos + 1]) /\ DeclaredPastEnd(buf, pos))
           => pres' = Eof
    /\ (pc = "check" /\ pos >= Len(buf) /\ SomeOpen) => pres' = Eof
    /\ (pc = "check" /\ SomeOddDict) => pres' = Eof
    /\ (pc = "prefix_done" /\ pres = Eof) => result' = Eof

C5_EofCases ==
    /\ [][C5_Step]_vars
    /\ [](pc = "done" /\ NoCeiling
            /\ buf \in {<<>>, <<Ch0 + 1, ChColon>>, <<ChL>>, <<ChD>>, Bytes_d1a,
                        Bytes_d1a \o <<ChE>>,
                        Bytes_d1a \o Tail(Bytes_d1a) \o Tail(Bytes_d1a) \o <<ChE>>}
            => result = Eof)

C5_Witness ==
    /\ pc = "done"
    /\ result = Eof
    /\ ~SomeOpen
    /\ \E i \in 2..Len(tokens) : tokens[i].kind = "Dict" /\ tokens[i].children = 1

\* the decimal literal that starts at offset start of b exceeds i64::max_value()
LitExceeds(b, start) == BigGT(BigStrip(DigitRun(b, start)), I64Max)

\* C6: an integer literal i<digits>e whose value exceeds 9223372036854775807
\* fails the parse with Overflow at the offset of the byte after `i`, and a
\* byte-string length prefix that exceeds it fails with Overflow at the offset
\* of its first digit.
C6_Step ==
    /\ (pc = "scan" /\ buf[pos + 1] = ChI /\ ~AtDictKey /\ LitExceeds(buf, pos + 1))
           => pres' = Overflow(pos + 1)
    /\ (pc = "scan" /\ IsDigit(buf[pos + 1]) /\ LitExceeds(buf, pos))
           => pres' = Overflow(pos)

C6_OverflowAtLiteralStart == [][C6_Step]_vars

C6_Witness ==
    /\ pc = "done"
    /\ result = Overflow(5)
    /\ SubSeq(buf, 1, 5) = Bytes_d1a \o <<ChI>>
    /\ buf[Len(buf)] = ChE

\* C7: with token limit N the token sequence never holds more than N tokens;
\* a buffer that needs more than N tokens before any error fails with
\* NoMemory at the (N+1)-th token, and a buffer that needs at most N tokens
\* gets the result and the tokens it gets without a limit.
C7_TokenCeiling ==
    /\ Len(tokens) <= token_limit
    /\ (PrefixDone /\ ~NoCeiling) =>
           \E oc \in BOOLEAN :
               LET ref == parse_prefix(ParserDefault, buf, oc)
               IN  IF Len(ref.p.tokens) > token_limit
                   THEN pres = NoMemory /\ Len(tokens) = token_limit
                   ELSE pres = ref.res /\ tokens = ref.p.tokens
    /\ (pc = "done" /\ ~NoCeiling) =>
           \E oc \in BOOLEAN :
               LET ref == parse(ParserDefault, buf, oc)
               IN  IF Len(ref.p.tokens) > token_limit
                   THEN result = NoMemory
                   ELSE result = ref.res

C7_Witness ==
    /\ pc = "done"
    /\ token_limit = 2
    /\ result = NoMemory
    /\ Len(tokens) = 2
    /\ parse(ParserDefault, buf, FALSE).res.kind = "Ok"

\* the number of tokens of the subtree of token i, by the children counts
RECURSIVE SubtreeSize(_, _), ChildrenSize(_, _, _)
SubtreeSize(tks, i) == 1 + ChildrenSize(tks, i + 1, tks[i].children)
ChildrenSize(tks, j, n) ==
    IF n = 0 THEN 0
    ELSE IF j > Len(tks) THEN Len(tks) + 1
    ELSE SubtreeSize(tks, j) + ChildrenSize(tks, j + SubtreeSize(tks, j), n - 1)

IsContainer(t) == t.kind \in {"List", "Dict"}

\* the tokens that lie inside the bytes of container i
Inside(tks, i) ==
    {j \in (i + 1)..Len(tks) :
        tks[j].start >= tks[i].start /\ tks[j].end <= tks[i].end}

\* C8: after every successful parse each token's next is 1 plus the number of
\* tokens of its subtree below it (1 for an Int or ByteStr, 1 plus all
\* descendants for a List or Dict), and every List/Dict has end >= start.
C8_NextIsSubtreeSize ==
    PrefixOk =>
        \A i \in 1..Len(tokens) :
            /\ tokens[i].next = SubtreeSize(tokens, i)
            /\ ~IsContainer(tokens[i]) => tokens[i].next = 1
            /\ IsContainer(tokens[i]) =>
                   /\ tokens[i].end >= tokens[i].start
                   /\ tokens[i].next = 1 + Cardinality(Inside(tokens, i))

C8_Witness ==
    /\ ParseOk
    /\ \E i \in 2..Len(tokens) :
           /\ tokens[i].next >= 2
           /\ i + tokens[i].next <= Len(tokens)

\* the index of the k-th direct child of container i, stepping by next
RECURSIVE ChildAt(_, _, _)
ChildAt(tks, i, k) ==
    IF k = 1 THEN i + 1
    ELSE LET c == ChildAt(tks, i, k - 1) IN c + tks[c].next

\* C9: after every successful parse every Dict token has an even children
\* count and its direct children at odd positions are ByteStr tokens, at
\* every depth.
C9_DictShape ==
    PrefixOk =>
        \A i \in 1..Len(tokens) :
            tokens[i].kind = "Dict" =>
                /\ tokens[i].children % 2 = 0
                /\ \A k \in 1..tokens[i].children :
                       k % 2 = 1 => tokens[ChildAt(tokens, i, k)].kind = "ByteStr"

C9_Witness ==
    /\ ParseOk
    /\ \E i \in 2..Len(tokens) :
           /\ tokens[i].kind = "Dict"
           /\ tokens[i].children >= 2
           /\ tokens[ChildAt(tokens, i, 2)].kind # "ByteStr"

\* C10: after every successful parse or parse_prefix the token sequence is
\* not empty and has one root: tokens[0].next is the number of tokens, and
\* every other token lies inside token 0.
C10_SingleRoot ==
    PrefixOk =>
        /\ tokens # <<>>
        /\ tokens[1].next = Len(tokens)
        /\ Inside(tokens, 1) = 2..Len(tokens)

C10_Witness ==
    /\ PrefixOk
    /\ pc = "prefix_done"
    /\ Len(tokens) >= 4
    /\ pres.len < Len(buf)


Opener(kind) == IF kind = "List" THEN ChL ELSE ChD

\* the digit values that end just before offset i of b, most significant first
RECURSIVE DigitRunBack(_, _)
DigitRunBack(b, i) ==
    IF i >= 1 /\ IsDigit(b[i])
    THEN Append(DigitRunBack(b, i - 1), b[i] - Ch0)
    ELSE <<>>

\* optional `-`, then digits only
IsIntText(bytes) ==
    \A k \in 1..Len(bytes) : IsDigit(bytes[k]) \/ (k = 1 /\ bytes[k] = ChMinus)

\* C18: as_raw_bytes of a List/Dict node is the node's whole encoding, from
\* its `l`/`d` through its closing `e`; of a ByteStr node the content bytes
\* without the length prefix; of an Int node the digit characters without
\* `i`/`e`; for a container root of a successful parse it is the whole buffer.
C18_RawBytes ==
    ParseOk =>
        /\ \A i \in 1..Len(tokens) :
              LET t   == tokens[i]
                  raw == as_raw_bytes(buf, tokens, i - 1)
              IN  /\ raw # FaultBytes
                  /\ IsContainer(t) =>
                        /\ Len(raw) >= 2
                        /\ raw[1] = Opener(t.kind)
                        /\ raw[Len(raw)] = ChE
                        /\ LET r == parse(ParserDefault, raw, FALSE)
                           IN  /\ r.res.kind = "Ok"
                               /\ Len(r.p.tokens) = t.next
                               /\ r.p.tokens[1].kind = t.kind
                  /\ t.kind = "ByteStr" =>
                        /\ buf[t.start] = ChColon
                        /\ DigitRunBack(buf, t.start - 1) # <<>>
                        /\ BigStrip(DigitRunBack(buf, t.start - 1)) = NatToBig(Len(raw))
                  /\ t.kind = "Int" =>
                        /\ buf[t.start] = ChI
                        /\ buf[t.end + 1] = ChE
                        /\ IsIntText(raw)
        /\ IsContainer(tokens[1]) => as_raw_bytes(buf, tokens, 0) = buf
        /\ (value # NoValue /\ buf = enc /\ value.kind = "ByteStr")
               => as_raw_bytes(buf, tokens, 0) = value.bytes
        /\ (value # NoValue /\ buf = enc /\ value.kind = "Int")
               => as_raw_bytes(buf, tokens, 0) = format_i64(value.val)

C18_Witness ==
    /\ ParseOk
    /\ Len(tokens) >= 4
    /\ \E i \in 2..Len(tokens) :
           /\ IsContainer(tokens[i])
           /\ tokens[i].next >= 2
           /\ Len(as_raw_bytes(buf, tokens, i - 1)) < Len(buf) - 2

\* the List/Dict part of C19 as the claim states it: [start, end) holds the
\* bytes strictly between the delimiters
ContainerSpanExclusive(t) ==
    /\ t.start >= 1
    /\ buf[t.start] = Opener(t.kind)
    /\ t.end < Len(buf)
    /\ buf[t.end + 1] = ChE

\* the span of a ByteStr token is its content, of an Int token its digits
LeafSpan(t) ==
    /\ t.kind = "ByteStr" =>
          /\ buf[t.start] = ChColon
          /\ BigStrip(DigitRunBack(buf, t.start - 1)) = NatToBig(t.end - t.start)
    /\ t.kind = "Int" =>
          /\ buf[t.start] = ChI
          /\ buf[t.end + 1] = ChE
          /\ IsIntText(SubSeq(buf, t.start + 1, t.end))

\* C19 as stated: after a successful parse a ByteStr token spans its content
\* bytes, an Int token its digit characters, and a List/Dict token the bytes
\* strictly between its delimiters, excluding both (`de` has start = end).
C19_SpansExcludeDelimiters ==
    ParseOk =>
        \A i \in 1..Len(tokens) :
            /\ LeafSpan(tokens[i])
            /\ IsContainer(tokens[i]) => ContainerSpanExclusive(tokens[i])

\* C19 amended: a ByteStr token spans its content bytes, an Int token its
\* digit characters, and a List/Dict token spans from its opening delimiter
\* through its closing `e`, both included (`de` has start = 0, end = 2); the
\* tokens of its subtree lie strictly between the two delimiters.
C19_TokenSpans ==
    ParseOk =>
        /\ \A i \in 1..Len(tokens) :
              /\ LeafSpan(tokens[i])
              /\ IsContainer(tokens[i]) =>
                    /\ tokens[i].end - tokens[i].start >= 2
                    /\ buf[tokens[i].start + 1] = Opener(tokens[i].kind)
                    /\ buf[tokens[i].end] = ChE
                    /\ \A j \in (i + 1)..(i + tokens[i].next - 1) :
                          /\ tokens[j].start > tokens[i].start
                          /\ tokens[j].end < tokens[i].end
        /\ buf = <<ChD, ChE>> => tokens = <<TokenNew("Dict", 0, 2)>>

C19_Witness ==
    /\ ParseOk
    /\ \E i \in 2..Len(tokens) :
           /\ tokens[i].kind = "Dict"
           /\ tokens[i].end - tokens[i].start > 2
           /\ tokens[i].end < tokens[1].end - 1

\* the buffer from offset start on is an integer literal body: an optional
\* `-`, at least one digit, then `e`
LiteralAt(b, start) ==
    LET s0  == IF start < Len(b) /\ b[start + 1] = ChMinus THEN start + 1 ELSE start
        run == DigitRun(b, s0)
    IN  /\ run # <<>>
        /\ s0 + Len(run) < Len(b)
        /\ b[s0 + Len(run) + 1] = ChE

\* the value of the literal at offset start lies outside
\* [-9223372036854775808, 9223372036854775807]
LiteralOutOfRange(b, start) ==
    IF b[start + 1] = ChMinus
    THEN BigGT(BigStrip(DigitRun(b, start + 1)), I64MinMag)
    ELSE BigGT(BigStrip(DigitRun(b, start)), I64Max)

\* C20: an integer literal is rejected with Overflow exactly when its value
\* lies outside [-9223372036854775808, 9223372036854775807]; every literal
\* inside the range, the most negative one included, is accepted.
C20_Step ==
    (pc = "scan" /\ buf[pos + 1] = ChI /\ ~AtDictKey /\ LiteralAt(buf, pos + 1)
        /\ Len(tokens) < token_limit)
        => IF LiteralOutOfRange(buf, pos + 1)
           THEN pres' = Overflow(pos + 1)
           ELSE /\ pres' = pres
                /\ Len(tokens') = Len(tokens) + 1
                /\ tokens'[Len(tokens')] =
                       TokenNew("Int", pos + 1,
                                pos + 1 + Len(DigitRun(buf, pos + 1))
                                  + (IF buf[pos + 2] = ChMinus
                                     THEN 1 + Len(DigitRun(buf, pos + 2)) ELSE 0))

C20_OverflowIffOutOfRange == [][C20_Step]_vars


\* the tokens directly below container i: inside its bytes and inside the
\* bytes of no container between
DirectChildren(tks, i) ==
    {j \in Inside(tks, i) :
        \A k \in Inside(tks, i) :
            ~(k < j /\ IsContainer(tks[k]) /\ j \in Inside(tks, k))}

\* the n-th of them in document order
NthDirect(tks, i, n) ==
    CHOOSE j \in DirectChildren(tks, i) :
        Cardinality({x \in DirectChildren(tks, i) : x < j}) = n - 1

\* the iterator is past its last item
IterDone == iter.it.pos >= iter.it.total

C11_List ==
    iter.kind = "List" =>
        LET c == iter.idx + 1 IN
        /\ Len(yielded) = iter.it.pos
        /\ Len(yielded) <= tokens[c].children
        /\ Cardinality(DirectChildren(tokens, c)) = tokens[c].children
        /\ \A k \in 1..Len(yielded) : yielded[k] + 1 = NthDirect(tokens, c, k)
        /\ nones >= 1 => Len(yielded) = tokens[c].children
        /\ Len(yielded) = tokens[c].children
              => iter.it.token_idx = iter.idx + tokens[c].next

C11_Dict ==
    iter.kind = "Dict" =>
        LET c == iter.idx + 1 IN
        /\ 2 * Len(yielded) = iter.it.pos
        /\ 2 * Len(yielded) <= tokens[c].children
        /\ Cardinality(DirectChildren(tokens, c)) = tokens[c].children
        /\ \A k \in 1..Len(yielded) :
              yielded[k] = <<NthDirect(tokens, c, 2 * k - 1) - 1,
                             NthDirect(tokens, c, 2 * k) - 1>>
        /\ nones >= 1 => 2 * Len(yielded) = tokens[c].children
        /\ 2 * Len(yielded) = tokens[c].children
              => iter.it.token_idx = iter.idx + tokens[c].next

\* C11: over a List of a successfully parsed tree iter() yields exactly
\* `children` Nodes (children/2 pairs over a Dict), each the next direct child
\* in document order and never a grandchild; after the last item the token
\* cursor is the container's index plus its `next`, and further calls yield
\* None.
C11_IterSkipsSubtrees ==
    /\ [](C11_List /\ C11_Dict)
    /\ [][nones >= 1 => (yielded' = yielded /\ iter' = iter /\ nones' > nones)]_vars

C11_Witness ==
    /\ iter.kind = "List"
    /\ nones = 2
    /\ Len(yielded) >= 2
    /\ \E k \in 1..(Len(yielded) - 1) : yielded[k + 1] > yielded[k] + 1

\* C12: List::get(i) is None when i >= len(); otherwise it is the i-th direct
\* child, the same Node as the i-th item of iter(), however many tokens the
\* siblings before it hold; len() counts the direct children only.
C12_ListGet ==
    got.op = "List::get" =>
        LET c == got.idx + 1 IN
        /\ got.len = Cardinality(DirectChildren(tokens, c))
        /\ got.i >= got.len => got.res = None
        /\ got.i < got.len =>
              /\ got.res + 1 = NthDirect(tokens, c, got.i + 1)
              /\ got.res = list_iter(tokens, got.idx + 1, 0,
                                     tokens[c].children)[got.i + 1]

C12_Witness ==
    /\ got.op = "List::get"
    /\ got.i >= 1
    /\ got.res > got.idx + got.i + 1

\* the entries of the Dict at token c whose key has the payload key
Matches(c, key) ==
    {m \in 1..(tokens[c].children \div 2) :
        as_raw_bytes(buf, tokens, NthDirect(tokens, c, 2 * m - 1) - 1) = key}

\* C13: Dict::get(k) returns the value Node paired with the first direct key
\* whose payload bytes equal k, and None when no direct key equals k; keys of
\* nested dictionaries are not matched and later duplicates are ignored.
C13_DictGet ==
    got.op = "Dict::get" =>
        LET c == got.idx + 1
            M == Matches(c, got.key)
        IN  IF M = {} THEN got.res = None
            ELSE got.res + 1 =
                   NthDirect(tokens, c, 2 * (CHOOSE m \in M : \A x \in M : m <= x))

C13_Witness ==
    /\ got.op = "Dict::get"
    /\ got.res >= 0
    /\ Cardinality(Matches(got.idx + 1, got.key)) >= 2


\* the step is a call, and what it appended to the sink
IsCall == call'.n = call.n + 1
AppendOnly == Len(enc') >= Len(enc) /\ SubSeq(enc', 1, Len(enc)) = enc
NewBytes == SubSeq(enc', Len(enc) + 1, Len(enc'))

\* bytes is the decimal text of the magnitude: digits only, no leading zero
IsDecimalOf(bytes, mag) ==
    /\ bytes # <<>>
    /\ \A k \in 1..Len(bytes) : IsDigit(bytes[k])
    /\ Len(bytes) > 1 => bytes[1] # Ch0
    /\ BigStrip([k \in 1..Len(bytes) |-> bytes[k] - Ch0]) = mag

\* bytes is `i`, the decimal text of v with `-` when negative, `e`
WireInt(bytes, v) ==
    /\ Len(bytes) >= 3
    /\ bytes[1] = ChI
    /\ bytes[Len(bytes)] = ChE
    /\ LET mid == SubSeq(bytes, 2, Len(bytes) - 1) IN
       IF v.neg THEN mid[1] = ChMinus /\ IsDecimalOf(Tail(mid), v.mag)
       ELSE IsDecimalOf(mid, v.mag)

\* bytes is the decimal length of b, `:`, then b
WireStr(bytes, b) ==
    LET k == Len(bytes) - Len(b) IN
    /\ k >= 2
    /\ IsDecimalOf(SubSeq(bytes, 1, k - 1), NatToBig(Len(b)))
    /\ bytes[k] = ChColon
    /\ SubSeq(bytes, k + 1, Len(bytes)) = b

WireLeaf(bytes, v) ==
    IF v.kind = "Int" THEN WireInt(bytes, v.val) ELSE WireStr(bytes, v.bytes)

\* bytes is the key as a byte string immediately followed by rest
KeyThen(bytes, key, Rest(_)) ==
    \E k \in 0..Len(bytes) :
        /\ WireStr(SubSeq(bytes, 1, k), key)
        /\ Rest(SubSeq(bytes, k + 1, Len(bytes)))

Openers == {k \in 1..Len(log) : log[k].what = "open"}
Closers == {k \in 1..Len(log) : log[k].what = "close"}
LiveBuilders == {k \in 1..Len(live) : live[k].kind \in {"List", "Dict"}}

C14_Inv ==
    /\ Len(log) = Len(enc)
    /\ Cardinality(Openers) - Cardinality(Closers) = Cardinality(LiveBuilders)
    /\ \A k \in Openers : enc[k] \in {ChL, ChD} /\ log[k].by = k - 1
    /\ \A k \in Closers : enc[k] = ChE
    /\ \A k \in Openers :
          Cardinality({c \in Closers : log[c].by = k - 1})
             = IF \E j \in 1..Len(live) : live[j].id = k - 1 THEN 0 ELSE 1

IsOpenerOf(bytes, kind) == bytes = <<Opener(kind)>>

C14_Step ==
    /\ (IsCall /\ call'.op = "add_builder") =>
          /\ AppendOnly
          /\ NewBytes = <<Opener(call'.arg)>>
          /\ Len(live') = Len(live) + 1
    /\ (IsCall /\ call'.op = "Dict::add_builder") =>
          /\ AppendOnly
          /\ LET kind == call'.arg[2]
                 IsIt(bytes) == IsOpenerOf(bytes, kind)
             IN  KeyThen(NewBytes, call'.arg[1], IsIt)
          /\ Len(live') = Len(live) + 1
    /\ (IsCall /\ call'.op \in {"finish", "drop"} /\ call'.arg \in {"List", "Dict"}) =>
          /\ enc' = Append(enc, ChE)
          /\ live' = SubSeq(live, 1, Len(live) - 1)

\* C14: creating a List/Dict builder appends exactly one `l`/`d`, releasing
\* it by finish() or by drop appends exactly one `e`, the same bytes either
\* way and never a second `e`; at every moment the openers written minus the
\* closers written is the number of live builders.
C14_OneOpenerOneCloser == []C14_Inv /\ [][C14_Step]_vars

C14_Witness ==
    /\ ~fault
    /\ live = <<>>
    /\ call.op = "finish"
    /\ Cardinality(Closers) >= 2
    /\ \E k \in Openers : k >= 2 /\ enc[k] = ChD

\* the builders that wrote to the sink, by the offset of their first byte
ContainerIds == {k - 1 : k \in Openers}
CloseAt(b) ==
    IF \E c \in Closers : log[c].by = b
    THEN CHOOSE c \in Closers : log[c].by = b
    ELSE 0
ParentOf(b) == log[b + 1].parent

RECURSIVE Descends(_, _)
Descends(x, b) ==
    IF x < 0 THEN FALSE
    ELSE ParentOf(x) = b \/ Descends(ParentOf(x), b)

\* C15: nested builders close in LIFO order: a child's closing `e` comes
\* before any later write of its parent and before the parent's own `e`, and
\* all bytes written through the child lie between its opener and its closer.
C15_NestedBuildersLifo ==
    \A b \in ContainerIds :
        LET p == ParentOf(b)
            c == CloseAt(b)
        IN  /\ \A k \in 1..Len(log) :
                  log[k].by = b => (k >= b + 1 /\ (c # 0 => k <= c))
            /\ \A k \in (b + 2)..Len(log) :
                  log[k].by = p => (c # 0 /\ k > c)
            /\ c # 0 => \A k \in (b + 1)..c :
                            log[k].by = b \/ Descends(log[k].by, b)

C15_Witness ==
    \E b \in ContainerIds :
        /\ ParentOf(b) >= 0
        /\ CloseAt(b) # 0
        /\ \E k \in (CloseAt(b) + 1)..Len(log) :
               log[k].by = ParentOf(b) /\ log[k].what \in {"data", "close"}
        /\ \E k \in (b + 2)..(CloseAt(b) - 1) : log[k].by = b

HelloList == VList(<<VStr(Hello), VStr(World), VInt(I64(FALSE, <<1, 2, 3>>))>>)
HelloBytes ==
    <<ChL, Ch0 + 5, ChColon>> \o Hello \o <<Ch0 + 5, ChColon>> \o World
        \o <<ChI, Ch0 + 1, Ch0 + 2, Ch0 + 3, ChE, ChE>>

C16_Step ==
    /\ (IsCall /\ call'.op = "add_int") =>
          AppendOnly /\ WireInt(NewBytes, call'.arg)
    /\ (IsCall /\ call'.op \in {"add_bytes", "add_str"}) =>
          AppendOnly /\ WireStr(NewBytes, call'.arg)
    /\ (IsCall /\ call'.op = "List::add") =>
          AppendOnly /\ WireLeaf(NewBytes, call'.arg)
    /\ (IsCall /\ call'.op = "Dict::add") =>
          /\ AppendOnly
          /\ LET v == call'.arg[2]
                 IsIt(bytes) == WireLeaf(bytes, v)
             IN  KeyThen(NewBytes, call'.arg[1], IsIt)

\* C16: add_int(v) appends `i`, the decimal digits of v (`-` first when
\* negative), `e`; add_bytes(b) appends the decimal length of b, `:`, then b;
\* add_str(s) appends what add_bytes of its bytes appends; Dict::add(key,
\* value) appends the key as a byte string immediately followed by the value,
\* at the end of the sink in call order; the list ["Hello", "World", 123]
\* encodes to `l5:Hello5:Worldi123ee`.
C16_WireFormat ==
    /\ [][C16_Step]_vars
    /\ [](encode(<<>>, HelloList) = HelloBytes)
    /\ [](\A b \in StrArgs : add_str(enc, b) = add_bytes(enc, b))

C16_Witness ==
    /\ enc = HelloBytes
    /\ live = <<>>
    /\ call = [n |-> 5, op |-> "finish", arg |-> "List"]

\* the offset just after the `:` of the length prefix that starts at offset id
RECURSIVE AfterColon(_, _)
AfterColon(bytes, id) ==
    IF id >= Len(bytes) THEN id
    ELSE IF bytes[id + 1] = ChColon THEN id + 1
    ELSE AfterColon(bytes, id + 1)

C17_Step ==
    /\ (IsCall /\ call'.op = "add_n_bytes") =>
          /\ AppendOnly
          /\ Len(NewBytes) >= 2
          /\ IsDecimalOf(SubSeq(NewBytes, 1, Len(NewBytes) - 1),
                         NatToBig(call'.arg))
          /\ NewBytes[Len(NewBytes)] = ChColon
          /\ live'[Len(live')].len = call'.arg
    /\ (IsCall /\ call'.op = "AddBytes::add") => enc' = enc \o call'.arg
    /\ (IsCall /\ call'.op \in {"finish", "drop"} /\ call'.arg = "AddBytes") =>
          LET w     == live[Len(live)]
              added == Len(enc) - AfterColon(enc, w.id)
          IN  /\ fault' = (added # w.len)
              /\ ~fault' =>
                    /\ enc' = enc
                    /\ live' = SubSeq(live, 1, Len(live) - 1)
                    /\ Len(enc') = AfterColon(enc', w.id) + w.len

\* C17: add_n_bytes(n) appends `n:` and returns a writer whose add() calls
\* append payload bytes; releasing the writer panics exactly when the number
\* of bytes added differs from n, and otherwise the sink has gained `n:`
\* followed by n payload bytes.
C17_DeclaredLengthWriter == [][C17_Step]_vars

C17_Witness ==
    /\ ~fault
    /\ live = <<>>
    /\ call = [n |-> 4, op |-> "drop", arg |-> "AddBytes"]
    /\ enc = <<Ch0 + 2, ChColon, 0, 0>>


\* between the `i` before offset s of b and the `e` stands no digit: `ie`, `i-e`
NoDigitLiteral(b, s) ==
    \/ s < Len(b) /\ b[s + 1] = ChE
    \/ s + 1 < Len(b) /\ b[s + 1] = ChMinus /\ b[s + 2] = ChE

IntTokens(tks) == {i \in 1..Len(tks) : tks[i].kind = "Int"}

C21_Step ==
    (pc = "scan" /\ buf[pos + 1] = ChI /\ NoDigitLiteral(buf, pos + 1)
        /\ Len(tokens) < token_limit)
      => /\ pres'.kind \in {"Invalid", "Unexpected"}
         /\ IntTokens(tokens') = IntTokens(tokens)

\* C21: an integer literal with no digit between `i` and `e` (`ie`, `i-e`)
\* makes the parse fail with Invalid or Unexpected and never produces an Int
\* token.
C21_LiteralNeedsDigit == [][C21_Step]_vars

\* at offset s of b stands `-`, at least one digit, `:`
NegativeLength(b, s) ==
    /\ s + 1 < Len(b)
    /\ b[s + 1] = ChMinus
    /\ LET run == DigitRun(b, s + 1)
       IN  /\ run # <<>>
           /\ s + 1 + Len(run) < Len(b)
           /\ b[s + 2 + Len(run)] = ChColon

C22_Step ==
    (pc = "scan" /\ NegativeLength(buf, pos))
      => (pres'.kind = "Invalid" /\ pres'.reason = ReasonLen)

\* C22: a byte string whose length prefix is negative (`-1:a`), at the root
\* or inside a container, is rejected with Invalid "String length must be
\* positive" and with no other error kind.
C22_NegativeLengthInvalid == [][C22_Step]_vars

C23_Step ==
    (pc = "scan" /\ buf[pos + 1] = ChE /\ ~SomeOpen)
      => (pres'.kind = "Invalid" /\ pres'.reason = ReasonUnclosed)

\* C23: a closing `e` met when no container is open, in particular as the
\* first byte of the buffer when the token sequence is empty, makes the parse
\* return Invalid "Unclosed object"; it neither succeeds nor aborts through an
\* arithmetic fault on the token counter.
C23_UnmatchedCloserInvalid == [][C23_Step]_vars


\* the byte can start a value
IsValueStart(c) == c \in {ChI, ChL, ChD, ChE} \/ IsDigit(c)

\* the offset of the first byte after the digits of the literal that starts
\* at offset s of b, its sign skipped
LiteralDigits(b, s) ==
    IF s < Len(b) /\ b[s + 1] = ChMinus THEN s + 1 ELSE s
LiteralStop(b, s) == LiteralDigits(b, s) + Len(DigitRun(b, LiteralDigits(b, s)))

\* the literal at offset s of b is cut by a byte that is neither a digit nor
\* the terminator, before its value leaves the i64 range
BadLiteralByte(b, s, terminator) ==
    /\ LiteralStop(b, s) < Len(b)
    /\ b[LiteralStop(b, s) + 1] # terminator
    /\ ~LitExceeds(b, LiteralDigits(b, s))

Bytes_ixyze == <<ChI, ChX, ChX + 1, ChX + 2, ChE>>

C24_Step ==
    /\ (pc = "scan" /\ ~IsValueStart(buf[pos + 1])) => pres' = Unexpected(pos)
    /\ (pc = "scan" /\ buf[pos + 1] = ChI /\ ~AtDictKey
          /\ BadLiteralByte(buf, pos + 1, ChE))
         => pres' = Unexpected(LiteralStop(buf, pos + 1))
    /\ (pc = "scan" /\ IsDigit(buf[pos + 1]) /\ BadLiteralByte(buf, pos, ChColon))
         => pres' = Unexpected(LiteralStop(buf, pos))
    /\ (pc = "scan" /\ pres'.kind = "Unexpected")
         => /\ pres'.pos >= pos
            /\ pres'.pos < Len(buf)
            /\ ~IsDigit(buf[pres'.pos + 1])
            /\ pres'.pos = pos => ~IsValueStart(buf[pos + 1])

\* C24: a byte that cannot start a value at a value position, or a byte
\* inside an integer or length literal that is neither a digit nor the
\* literal's terminator, fails the parse with Unexpected{pos}, pos the offset
\* of that byte (`ixyze` gives pos 1), when no earlier byte caused an error.
C24_UnexpectedAtOffendingByte ==
    /\ [][C24_Step]_vars
    /\ [](parse(ParserDefault, Bytes_ixyze, FALSE).res = Unexpected(1))

C24_Witness ==
    /\ pc = "done"
    /\ result = Unexpected(3)
    /\ SubSeq(buf, 1, 3) = <<ChL, ChI, Ch0 + 1>>
    /\ Len(tokens) = 1


\* the offset of the first `e` at or after offset k of b, or Len(b)
RECURSIVE NextE(_, _)
NextE(b, k) ==
    IF k >= Len(b) THEN Len(b)
    ELSE IF b[k + 1] = ChE THEN k
    ELSE NextE(b, k + 1)

\* the offset after the byte string whose length prefix starts at offset k
AfterString(b, k) ==
    LET run == DigitRun(b, k)
        mag == BigStrip(run)
    IN  IF Len(mag) > 9 THEN Len(b)
        ELSE k + Len(run) + 1 + BigToNat(mag)

\* the start offsets of the containers opened and not closed by the bytes
\* b[k..n) read as lexemes, on top of the stack st, outermost first
RECURSIVE OpenStarts(_, _, _, _)
OpenStarts(b, k, n, st) ==
    IF k >= n \/ k >= Len(b) THEN st
    ELSE LET c == b[k + 1] IN
         IF c \in {ChL, ChD} THEN OpenStarts(b, k + 1, n, Append(st, k))
         ELSE IF c = ChE
              THEN OpenStarts(b, k + 1, n,
                              IF st = <<>> THEN st ELSE SubSeq(st, 1, Len(st) - 1))
         ELSE IF c = ChI THEN OpenStarts(b, NextE(b, k + 1) + 1, n, st)
         ELSE IF IsDigit(c) THEN OpenStarts(b, AfterString(b, k), n, st)
         ELSE st

UnsetEnd == {i \in 1..Len(tokens) : tokens[i].end < 0}
LastOf(S) == CHOOSE i \in S : \A j \in S : j <= i

\* C26: after each byte dispatch of a parse that goes on, the tokens with
\* unset end are exactly the containers opened and not yet closed; they form
\* one ancestor chain in increasing index order, tok_super is the index of the
\* last of them (-1 when there is none) and depth is their number.
C26_OpenChain ==
    pc \in {"scan", "check"} =>
        LET st == OpenStarts(buf, 0, pos, <<>>) IN
        /\ \A i \in UnsetEnd : tokens[i].kind \in {"List", "Dict"} /\ tokens[i].start >= 0
        /\ {tokens[i].start : i \in UnsetEnd} = {st[k] : k \in 1..Len(st)}
        /\ Cardinality(UnsetEnd) = Len(st)
        /\ \A i, j \in UnsetEnd : i < j => tokens[i].start < tokens[j].start
        /\ \A i \in UnsetEnd : \A j \in (i + 1)..Len(tokens) :
               tokens[j].start > tokens[i].start
        /\ tok_super = IF UnsetEnd = {} THEN -1 ELSE LastOf(UnsetEnd) - 1
        /\ depth = Cardinality(UnsetEnd)

C26_Witness ==
    /\ pc = "scan"
    /\ Cardinality(UnsetEnd) = 2
    /\ tok_super = 1
    /\ Len(tokens) = 4
    /\ tokens[4].kind = "List"
    /\ tokens[4].end = pos


\* the first entry of the Dict at token c whose key has the payload key
FirstMatch(c, key) == CHOOSE m \in Matches(c, key) : \A x \in Matches(c, key) : m <= x

\* C25: narrowing never faults on a kind mismatch: as_list / as_dict /
\* as_int / as_bytes on a Node of a successfully parsed tree are Some exactly
\* when the node's kind is the one asked for and None otherwise; the get_*
\* accessors of List and Dict are None when the index or key is absent or the
\* node found has another kind, and Some otherwise.
C25_Narrowing ==
    /\ got.op = "Node::as" =>
          got.res = IF tokens[got.idx + 1].kind = got.want THEN "Some" ELSE "None"
    /\ got.op = "List::get_as" =>
          LET c == got.idx + 1 IN
          got.res = IF /\ got.i < Cardinality(DirectChildren(tokens, c))
                       /\ tokens[NthDirect(tokens, c, got.i + 1)].kind = got.want
                    THEN "Some" ELSE "None"
    /\ got.op = "Dict::get_as" =>
          LET c == got.idx + 1 IN
          got.res = IF /\ Matches(c, got.key) # {}
                       /\ tokens[NthDirect(tokens, c, 2 * FirstMatch(c, got.key))].kind
                            = got.want
                    THEN "Some" ELSE "None"

C25_Witness ==
    /\ got.op = "Dict::get_as"
    /\ got.res = "None"
    /\ got.want = "List"
    /\ Matches(got.idx + 1, got.key) # {}
    /\ tokens[NthDirect(tokens, got.idx + 1, 2 * FirstMatch(got.idx + 1, got.key))].kind
         = "Dict"

\* the call that returned left what the same call leaves on a fresh Parser
\* with the same token limit, in a build with or without overflow checks
SameAsFresh ==
    \E oc \in BOOLEAN :
        LET r == parse_prefix(FreshP, buf, oc) IN
        /\ pres = r.res
        /\ tokens = r.p.tokens
        /\ pc = "done" => result = parse_return(r.res, buf)

\* C27 as stated: after any sequence of earlier calls on the same Parser,
\* parse(B) returns the same result and leaves the same token sequence as
\* parse(B) on a fresh Parser with the same token limit.
C27_ReuseIsFresh == PrefixDone => SameAsFresh

C27_Step ==
    (pc \in {"prefix_done", "done"} /\ pc' = "prefix_done" /\ buf' = <<>>)
        => tokens' = tokens

\* C27: after any sequence of earlier calls on the same Parser, parse(B) of a
\* non-empty B returns the same result and leaves the same token sequence as
\* on a fresh Parser with the same token limit; parse of an empty B returns
\* Eof as on a fresh Parser and leaves the tokens of the previous call.
C27_ReuseIsFreshNonEmpty ==
    /\ [](PrefixDone /\ buf # <<>> => SameAsFresh)
    /\ [](PrefixDone /\ buf = <<>>
            => (pres = Eof /\ (pc = "done" => result = Eof)))
    /\ [][C27_Step]_vars

C27_Witness ==
    /\ pc = "done"
    /\ buf = Bytes_l0lee
    /\ result.kind = "Ok"
    /\ Len(tokens) = 3
    /\ token_limit = UsizeMax

\* C28: whenever parse_prefix(B) succeeds, the consumed count n satisfies
\* 1 <= n <= len(B) and B[0..n] is a complete value that parse accepts.
C28_ConsumedWithinBuffer ==
    (pc = "prefix_done" /\ pres.kind = "Ok") =>
        /\ pres.len >= 1
        /\ pres.len <= Len(buf)
        /\ ParseOfPrefix(pres.len).res.kind = "Ok"

\* C29: for every well-formed single-value encoding E and every non-empty
\* proper prefix P of E, parse(P) fails with Eof, also when E is a root
\* integer and P lacks only its terminating `e`.
C29_TruncatedIsEof ==
    (pc = "idle" /\ value # NoValue) =>
        \A n \in 1..(Len(enc) - 1) : \A oc \in BOOLEAN :
            parse(ParserDefault, SubSeq(enc, 1, n), oc).res = Eof

SpansInBuffer ==
    \A i \in 1..Len(tokens) :
        /\ 0 <= tokens[i].start
        /\ tokens[i].start <= tokens[i].end
        /\ tokens[i].end <= Len(buf)
        /\ as_raw_bytes(buf, tokens, i - 1) # FaultBytes

\* the tokens below a container lie strictly inside its span, those after
\* its subtree start at or after its end
SpansNested ==
    \A i \in 1..Len(tokens) : \A j \in (i + 1)..Len(tokens) :
        IF j < i + tokens[i].next
        THEN tokens[j].start > tokens[i].start /\ tokens[j].end < tokens[i].end
        ELSE tokens[j].start >= tokens[i].end

\* C30 as stated: start offsets strictly increase along the token sequence
C30_SpansStrictlyIncreasing ==
    PrefixOk =>
        /\ SpansInBuffer
        /\ SpansNested
        /\ \A i \in 1..(Len(tokens) - 1) : tokens[i].start < tokens[i + 1].start

\* C30: after every successful parse or parse_prefix of B every token has
\* 0 <= start <= end <= len(B), tokens are in preorder with non-decreasing
\* start offsets (equal only for an empty byte string and the List or Dict
\* that follows it), and each child's span lies inside its parent's, so
\* Token::range and as_raw_bytes fault on no Node of the tree.
C30_SpansOrdered ==
    PrefixOk =>
        /\ SpansInBuffer
        /\ SpansNested
        /\ \A i \in 1..(Len(tokens) - 1) :
              \/ tokens[i].start < tokens[i + 1].start
              \/ /\ tokens[i].start = tokens[i + 1].start
                 /\ tokens[i].kind = "ByteStr"
                 /\ tokens[i].end = tokens[i].start
                 /\ IsContainer(tokens[i + 1])

C30_Witness ==
    /\ pc = "done"
    /\ result.kind = "Ok"
    /\ buf = Bytes_l0lee
    /\ tokens[2].start = tokens[3].start
    /\ got.op = "Node::as"

====
